---------------------------- MODULE Spec2Model ----------------------------
(***************************************************************************)
(* A model of the poster-downloader bot: the Cloudflare Worker entry point *)
(* (src/src/entry.py) and the Telegram client and Dispatcher               *)
(* (src/src/telegram_bot.py).                                              *)
(*                                                                         *)
(* Python strings are sequences of atoms.  An atom is a TLA+ string that   *)
(* stands for one character (a digit, "-", ":" or "/") or for a run of     *)
(* characters holding none of these (a word such as "nav" or "posters").   *)
(* Python dicts are functions whose domain is the set of keys present.     *)
(* Optional values are sequences: <<>> is None, <<x>> is the value x.      *)
(* Every await in the source is a step boundary: an action performs the    *)
(* awaited operation and runs the code up to the next await.               *)
(***************************************************************************)
EXTENDS Integers, Sequences, FiniteSets, TLC

\* ------------------------------------------------------------------------
\* Bounds of the model
\* ------------------------------------------------------------------------

\* The longest image sequence a search result holds.
MaxImages == 3

\* The most handlers registered per update kind.
MaxHandlers == 2

\* ------------------------------------------------------------------------
\* Strings
\* ------------------------------------------------------------------------

Digits == {"0", "1", "2", "3", "4", "5", "6", "7", "8", "9"}

DigitChar == <<"0", "1", "2", "3", "4", "5", "6", "7", "8", "9">>

DigitVal(c) == CHOOSE d \in 0..9 : DigitChar[d + 1] = c

RECURSIVE NatToStr(_)
NatToStr(n) ==
    IF n < 10 THEN <<DigitChar[n + 1]>>
    ELSE NatToStr(n \div 10) \o <<DigitChar[(n % 10) + 1]>>

\* str(i) as an f-string formats an int.
IntToStr(i) == IF i < 0 THEN <<"-">> \o NatToStr(-i) ELSE NatToStr(i)

AllDigits(s) == Len(s) > 0 /\ \A k \in 1..Len(s) : s[k] \in Digits

\* Whether int(s) succeeds: an optional sign, then at least one digit.
IsIntStr(s) ==
    IF Len(s) > 0 /\ s[1] \in {"-", "+"} THEN AllDigits(Tail(s)) ELSE AllDigits(s)

RECURSIVE DigitsToNat(_)
DigitsToNat(s) ==
    IF Len(s) = 0 THEN 0
    ELSE 10 * DigitsToNat(SubSeq(s, 1, Len(s) - 1)) + DigitVal(s[Len(s)])

\* int(s), for an s that IsIntStr.
StrToInt(s) ==
    IF s[1] = "-" THEN 0 - DigitsToNat(Tail(s))
    ELSE IF s[1] = "+" THEN DigitsToNat(Tail(s))
    ELSE DigitsToNat(s)

\* s.split(":"): the fields between the colons; "".split(":") is [""].
RECURSIVE SplitColon(_)
SplitColon(s) ==
    IF \A k \in 1..Len(s) : s[k] # ":" THEN <<s>>
    ELSE LET k == CHOOSE j \in 1..Len(s) :
                      s[j] = ":" /\ \A i \in 1..(j - 1) : s[i] # ":"
         IN  <<SubSeq(s, 1, k - 1)>> \o SplitColon(SubSeq(s, k + 1, Len(s)))

\* text.startswith('/')
StartsWithSlash(s) == Len(s) > 0 /\ s[1] = "/"

\* any(char.isdigit() for char in text)
HasDigit(s) == \E k \in 1..Len(s) : s[k] \in Digits

\* ------------------------------------------------------------------------
\* Dicts and optional values
\* ------------------------------------------------------------------------

None == <<>>

Some(x) == <<x>>

EmptyDict == [k \in {} |-> None]

\* d.get(key, default) for a literal key.
Get(d, key, default) == IF key \in DOMAIN d THEN d[key] ELSE default

\* d.get(s, default) for a key held in a string variable.  Every key the
\* dicts of the model hold is a one-atom string.
GetS(d, s, default) ==
    IF Len(s) = 1 /\ s[1] \in DOMAIN d THEN d[s[1]] ELSE default

\* {**a, **b}: the keys of b override those of a.
Merge(a, b) == b @@ a


\* ------------------------------------------------------------------------
\* The data the environment supplies
\* ------------------------------------------------------------------------

\* The media ids the search API answers with, and one it never returns.
MediaIds == {<<"7">>}

UnknownMediaId == <<"8">>

\* [url_1, ..., url_n]
Urls(n) == [i \in 1..n |-> <<"https", ":", "/", "/", "img", "/">> \o NatToStr(i)]

\* The "images" values of the search results: media type -> language ->
\* image URLs.  One result per length 0..MaxImages of posters.en, and one
\* with several languages and both media types.
ImageMaps ==
    { [posters |-> [en |-> Urls(n)]] : n \in 0..MaxImages }
    \cup { [posters |-> [en |-> Urls(2), null |-> Urls(1)],
            backdrops |-> [fr |-> Urls(1)]] }

\* The JSON objects the search API answers with (status 200): with and
\* without "images", and without "media_id".
SearchResults ==
    { [media_id |-> m, title |-> <<"Matrix">>, images |-> im] :
          m \in MediaIds, im \in ImageMaps }
    \cup { [media_id |-> m, title |-> <<"Matrix">>] : m \in MediaIds }
    \cup { [title |-> <<"Matrix">>] }

\* The language codes of the results in sorted() order, their len() and
\* their upper().
LangOrder == <<"en", "fr", "null">>

LangLen == [en |-> 2, fr |-> 2, null |-> 4]

LangUpper == [en |-> "EN", fr |-> "FR", null |-> "NULL"]

\* sorted(keys): the keys in the order of LangOrder.
RECURSIVE SortedFrom(_, _)
SortedFrom(order, keys) ==
    IF order = <<>> THEN <<>>
    ELSE (IF Head(order) \in keys THEN <<<<Head(order)>>>> ELSE <<>>)
         \o SortedFrom(Tail(order), keys)

SortedKeys(d) == SortedFrom(LangOrder, DOMAIN d)

\* The callback event a button press delivers: cb["id"], cb["data"] and the
\* message the button sits on.
Callback(data) ==
    [id |-> <<"q1">>, data |-> data,
     message |-> [chat |-> [id |-> 100], message_id |-> 5]]

\* NavToken with the language before the media type: the variant C15 is
\* checked against.
NavTokenSwapped(media_type, lang, index, media_id) ==
    <<"nav", ":">> \o lang \o <<":">> \o media_type \o <<":">>
        \o IntToStr(index) \o <<":">> \o media_id

\* f"nav:{media_type}:{lang}:{index}:{media_id}"
NavToken(media_type, lang, index, media_id) ==
    <<"nav", ":">> \o media_type \o <<":">> \o lang \o <<":">>
        \o IntToStr(index) \o <<":">> \o media_id

\* f"view:{media_type}:{media_id}"
ViewToken(media_type, media_id) ==
    <<"view", ":">> \o media_type \o <<":">> \o media_id

\* f"details:{media_id}"
DetailsToken(media_id) == <<"details", ":">> \o media_id

\* f"back:main:{media_id}"
BackToken(media_id) == <<"back", ":", "main", ":">> \o media_id

NoopToken == <<"noop">>

AllIds == MediaIds \cup {UnknownMediaId}

\* The callback data a delivery may carry: the tokens of the grammar for a
\* cached and for a never-cached media id, with requested indices below,
\* inside and above every image sequence, and tokens outside the grammar.
WellFormedTokens ==
    { NoopToken }
    \cup { ViewToken(t, m) : t \in {<<"posters">>, <<"backdrops">>}, m \in AllIds }
    \cup { DetailsToken(m) : m \in AllIds }
    \cup { BackToken(m) : m \in AllIds }
    \cup { NavToken(<<"posters">>, <<"en">>, i, m) :
               i \in (0 - 1)..(MaxImages + 1), m \in AllIds }
    \cup { NavToken(<<"posters">>, <<"null">>, 0, m) : m \in MediaIds }
    \cup { NavToken(<<"backdrops">>, <<"fr">>, 0, m) : m \in MediaIds }
    \cup { NavToken(<<"backdrops">>, <<"en">>, 0, m) : m \in MediaIds }

MalformedTokens ==
    { <<>>,
      <<"view">>,
      <<"nav", ":", "posters", ":", "en", ":", "7">>,
      <<"nav", ":", "posters", ":", "en", ":", "x", ":", "7">>,
      <<"nav", ":", "posters", ":", "en", ":", "0", ":", "1", ":", "7">>,
      <<"back", ":", "other", ":", "7">>,
      <<"back", ":", "7">>,
      <<"foo", ":", "7">> }

CallbackData == WellFormedTokens \cup MalformedTokens

\* ------------------------------------------------------------------------
\* The Session Cache (env.BOT_STATE)
\* ------------------------------------------------------------------------

\* f"media:{media_id}"
CacheKey(media_id) == <<"media", ":">> \o media_id

\* json.dumps(data): the stored string; json.loads gives the object back.
JsonDumps(data) == [json |-> data]

JsonLoads(str) == str.json

\* expiration_ttl of a Session Record, in seconds.
SessionTtl == 3600

\* await env.BOT_STATE.get(key): the stored string, or None.
KvGet(kv, key) == IF key \in DOMAIN kv THEN Some(kv[key].value) ELSE None

\* await env.BOT_STATE.put(key, value, expiration_ttl=ttl): the whole entry
\* under key is replaced.
KvPut(kv, key, value, ttl) == (key :> [value |-> value, ttl |-> ttl]) @@ kv

\* The store drops an entry when its TTL has run out.
KvDrop(kv, key) == [k \in (DOMAIN kv) \ {key} |-> kv[k]]


\* ------------------------------------------------------------------------
\* The Protocol Client (class TelegramBot)
\* ------------------------------------------------------------------------

\* The methods class TelegramBot defines: what bot.<name> finds.  Any other
\* attribute lookup raises AttributeError.
TelegramBotMethods ==
    { "handle_update", "_api_call", "_post_json", "_fix_reply_markup",
      "_build_multipart", "_send_file", "set_webhook", "delete_webhook",
      "set_my_commands", "delete_my_commands", "send_message",
      "edit_message_text", "delete_message", "answer_callback_query",
      "send_chat_action", "get_file", "download_file", "send_photo",
      "send_video", "send_document", "send_audio", "send_voice", "send_poll",
      "ban_chat_member" }

BotHasMethod(name) == name \in TelegramBotMethods

\* dict.pop(key, None) leaves the dict without key.
Without(d, key) == [k \in (DOMAIN d) \ {key} |-> d[k]]

\* One button of _fix_reply_markup:
\*   cb = btn_copy.pop("callbackData", None) or btn_copy.pop("callback", None)
\*   if cb is not None: btn_copy["callback_data"] = cb
\* The second pop runs only when the first gave None or an empty string.
FixButton(btn) ==
    LET first  == Get(btn, "callbackData", None)
        b1     == Without(btn, "callbackData")
        truthy == "callbackData" \in DOMAIN btn /\ first # <<>>
        b2     == IF truthy THEN b1 ELSE Without(b1, "callback")
        cb     == IF truthy THEN Some(first)
                  ELSE IF "callback" \in DOMAIN b1 THEN Some(b1["callback"])
                  ELSE None
    IN  IF cb # None THEN ("callback_data" :> cb[1]) @@ b2 ELSE b2

\* _fix_reply_markup(reply_markup), for a reply_markup that is a dict.
FixReplyMarkup(rm) ==
    IF "inline_keyboard" \notin DOMAIN rm THEN rm
    ELSE ("inline_keyboard" :>
              [i \in 1..Len(rm["inline_keyboard"]) |->
                  [j \in 1..Len(rm["inline_keyboard"][i]) |->
                      FixButton(rm["inline_keyboard"][i][j])]]) @@ rm

\* One outbound request of _post_json: the API method and the JSON payload.
ApiCall(method, payload) == [op |-> "api", method |-> method, payload |-> payload]

\* answer_callback_query(callback_query_id, options)
AnswerCallbackQuery(id, options) ==
    ApiCall("answerCallbackQuery", Merge([callback_query_id |-> id], options))

\* send_message(chat_id, text, options), options without reply_markup.
SendMessage(chat_id, text, options) ==
    ApiCall("sendMessage", Merge([chat_id |-> chat_id, text |-> text], options))

\* send_chat_action(chat_id, action)
SendChatAction(chat_id, action) ==
    ApiCall("sendChatAction", [chat_id |-> chat_id, action |-> action])

\* send_photo(chat_id, photo, options) for a photo given by URL: _send_file
\* in its JSON mode, the reply_markup normalized.
SendPhoto(chat_id, photo, options) ==
    ApiCall("sendPhoto",
            Merge(IF "reply_markup" \in DOMAIN options
                  THEN [chat_id |-> chat_id, photo |-> photo,
                        reply_markup |-> FixReplyMarkup(options["reply_markup"])]
                  ELSE [chat_id |-> chat_id, photo |-> photo],
                  Without(options, "reply_markup")))


\* ------------------------------------------------------------------------
\* State
\* ------------------------------------------------------------------------

VARIABLES
    message_handlers,          \* Dispatcher.message_handlers
    callback_query_handlers,   \* Dispatcher.callback_query_handlers
    cache,                     \* env.BOT_STATE: key -> [value, ttl]
    proc                       \* the deliveries: position, locals, effects

vars == <<message_handlers, callback_query_handlers, cache, proc>>

\* The deliveries of the model, and those handled one at a time.
Procs == {1, 2}

SeqProcs == {1}

\* A delivery before any code has run: no locals and no effects.  trace
\* lists the cache operations and outbound requests of the delivery in
\* program order; fault is the exception that left the entered function.
Fresh(entry) ==
    [ pc |-> "idle", entry |-> entry, trace |-> <<>>, fault |-> None,
      \* handle_callback
      cb |-> None, parts |-> <<>>, action |-> <<>>, media_id |-> <<>>,
      result_data |-> None, render |-> None,
      \* handle_pagination
      pg_args |-> None, pg_render |-> None, err |-> None,
      \* handle_message
      text |-> <<>>, pending |-> None, data |-> None,
      \* Default.fetch, TelegramBot.handle_update, Dispatcher.route_update
      request |-> None, update |-> None, ru |-> "none", branches |-> <<>>,
      fired |-> {}, idx |-> 0, log |-> <<>>, printed |-> <<>>,
      response |-> None ]

\* Whether a delivery has ended: its function returned or raised.
Ended(r) == r.pc \in {"done", "raised"}

\* Whether the slot can take a new delivery.
Free(r) == r.pc = "idle" \/ Ended(r)

Traced(r, event) == [r EXCEPT !.trace = Append(@, event)]

\* The function returns.
Return(r) == [r EXCEPT !.pc = "done"]

\* An exception leaves the function.
Raise(r, exc) == [r EXCEPT !.pc = "raised", !.fault = Some(exc)]

\* ------------------------------------------------------------------------
\* The Navigation State Machine: handle_callback and handle_pagination
\* ------------------------------------------------------------------------

ExpiredText == <<"Sorry, this session has expired. Please search again.">>

NoImagesText == <<"No images found for this selection.">>

\* f"An error occurred: {e}"
ErrorText(e) == <<"An error occurred: ", e>>

\* The main-menu keyboard send_main_menu builds.
MainMenuKeyboard(media_id) ==
    [inline_keyboard |->
        << << [text |-> <<"View Posters">>,
               callback_data |-> ViewToken(<<"posters">>, media_id)],
              [text |-> <<"View Backdrops">>,
               callback_data |-> ViewToken(<<"backdrops">>, media_id)] >>,
           << [text |-> <<"Full Details">>,
               callback_data |-> DetailsToken(media_id)] >> >>]

\* The main-menu keyboard the back action rebuilds.
BackMainKeyboard(media_id) ==
    [inline_keyboard |->
        << << [text |-> <<"View Posters">>,
               callback_data |-> ViewToken(<<"posters">>, media_id)],
              [text |-> <<"View Backdrops">>,
               callback_data |-> ViewToken(<<"backdrops">>, media_id)] >>,
           << [text |-> <<"Full Details">>,
               callback_data |-> DetailsToken(media_id)] >> >>]

BackToMainButton(media_id) ==
    [text |-> <<"Back to Main Menu">>, callback_data |-> BackToken(media_id)]

\* lang.upper() if len(lang) == 2 else "No Language"
LangName(lang) == IF LangLen[lang] = 2 THEN LangUpper[lang] ELSE "No Language"

\* f"{lang_name} ({count})"
LangLabel(lang, count) == <<LangName(lang), " ", "(">> \o IntToStr(count) \o <<")">>

\* The language keyboard of the view action: one row per language of
\* images[media_type] in sorted order, then the back row.
LanguageKeyboard(result_data, media_type, media_id) ==
    LET byLang == GetS(Get(result_data, "images", EmptyDict), media_type, EmptyDict)
        langs  == SortedKeys(byLang)
    IN  [inline_keyboard |->
            [i \in 1..Len(langs) |->
                << [text |-> LangLabel(langs[i][1], Len(byLang[langs[i][1]])),
                    callback_data |-> NavToken(media_type, langs[i], 0, media_id)] >>]
            \o << <<BackToMainButton(media_id)>> >>]

\* new_index = max(0, min(current_index, total_images - 1))
Min(a, b) == IF a < b THEN a ELSE b

Max(a, b) == IF a > b THEN a ELSE b

\* ClampIndex without its floor at 0: the variant C5 is checked against.
ClampIndexNoFloor(current_index, total_images) ==
    Min(current_index, total_images - 1)

ClampIndex(current_index, total_images) ==
    Max(0, Min(current_index, total_images - 1))

\* HasPrev that also holds at index 0: the variant C25 is checked against.
HasPrevAtZero(new_index) == new_index >= 0

\* Whether the image view gets a Prev and a Next button.
HasPrev(new_index) == new_index > 0

\* HasNext off by one: the variant C6 is checked against.
HasNextOffByOne(new_index, total_images) == new_index < total_images

HasNext(new_index, total_images) == new_index < total_images - 1

\* PaginationButtons whose Next button repeats the current index: the
\* variant C7 is checked against.
PaginationButtonsStuck(media_type, lang, new_index, total_images, media_id) ==
    << (IF HasPrev(new_index)
        THEN << [text |-> <<"Prev">>,
                 callback_data |-> NavToken(media_type, lang, new_index - 1, media_id)] >>
        ELSE <<>>)
       \o << [text |-> IntToStr(new_index + 1) \o <<"/">> \o IntToStr(total_images),
              callback_data |-> NoopToken] >>
       \o (IF HasNext(new_index, total_images)
           THEN << [text |-> <<"Next">>,
                    callback_data |-> NavToken(media_type, lang, new_index, media_id)] >>
           ELSE <<>>),
       << [text |-> <<"Back to Languages">>,
           callback_data |-> ViewToken(media_type, media_id)] >> >>

\* PaginationButtons whose back button always returns to the posters list:
\* the variant C22 is checked against.
PaginationButtonsBackToPosters(media_type, lang, new_index, total_images, media_id) ==
    << (IF HasPrev(new_index)
        THEN << [text |-> <<"Prev">>,
                 callback_data |-> NavToken(media_type, lang, new_index - 1, media_id)] >>
        ELSE <<>>)
       \o << [text |-> IntToStr(new_index + 1) \o <<"/">> \o IntToStr(total_images),
              callback_data |-> NoopToken] >>
       \o (IF HasNext(new_index, total_images)
           THEN << [text |-> <<"Next">>,
                    callback_data |-> NavToken(media_type, lang, new_index + 1, media_id)] >>
           ELSE <<>>),
       << [text |-> <<"Back to Languages">>,
           callback_data |-> ViewToken(<<"posters">>, media_id)] >> >>

\* The image-view keyboard of handle_pagination: the row of Prev, the
\* indicator and Next, then the back-to-languages row.
PaginationButtons(media_type, lang, new_index, total_images, media_id) ==
    << (IF HasPrev(new_index)
        THEN << [text |-> <<"Prev">>,
                 callback_data |-> NavToken(media_type, lang, new_index - 1, media_id)] >>
        ELSE <<>>)
       \o << [text |-> IntToStr(new_index + 1) \o <<"/">> \o IntToStr(total_images),
              callback_data |-> NoopToken] >>
       \o (IF HasNext(new_index, total_images)
           THEN << [text |-> <<"Next">>,
                    callback_data |-> NavToken(media_type, lang, new_index + 1, media_id)] >>
           ELSE <<>>),
       << [text |-> <<"Back to Languages">>,
           callback_data |-> ViewToken(media_type, media_id)] >> >>


\* list[i] for a Python list and a zero-based index that may be negative.
PyIndexOk(list, i) == (0 - Len(list)) <= i /\ i < Len(list)

PyIndex(list, i) == IF i >= 0 THEN list[i + 1] ELSE list[Len(list) + i + 1]

\* An exception raised inside the try of handle_pagination: the except
\* clause answers the callback with the error.
PaginationCatch(r, exc) == [r EXCEPT !.err = Some(exc), !.pc = "pg_answer_error"]

\* HandleCallbackEnter without the noop branch: every action goes on to the
\* cache read.  The variant C20 is checked against.
HandleCallbackEnterNoNoop(r, cb) ==
    LET parts == SplitColon(cb.data)
    IN  [r EXCEPT !.cb = Some(cb), !.parts = parts, !.action = parts[1],
                  !.media_id = parts[Len(parts)], !.pc = "hc_get"]

\* handle_callback from its entry to its first await: the token is split
\* and a noop is told apart from the actions that read the cache.
HandleCallbackEnter(r, cb) ==
    LET parts  == SplitColon(cb.data)
        action == parts[1]
        r1     == [r EXCEPT !.cb = Some(cb), !.parts = parts, !.action = action]
    IN  IF action = <<"noop">>
        THEN [r1 EXCEPT !.pc = "hc_answer"]
        ELSE [r1 EXCEPT !.media_id = parts[Len(parts)], !.pc = "hc_get"]

\* handle_pagination from its entry to its cache read: the five fields are
\* unpacked and the index is converted.
PaginationEnter(r) ==
    IF Len(r.parts) # 5 THEN PaginationCatch(r, "ValueError")
    ELSE IF ~IsIntStr(r.parts[4]) THEN PaginationCatch(r, "ValueError")
    ELSE [r EXCEPT !.pg_args = Some([media_type    |-> r.parts[2],
                                     lang          |-> r.parts[3],
                                     current_index |-> StrToInt(r.parts[4]),
                                     media_id      |-> r.parts[5]]),
                   !.pc = "pg_get"]

\* The caption and keyboard a view, details or back action passes to
\* bot.edit_message_caption.
CaptionRender(r, template, keyboard) ==
    [r EXCEPT !.render = Some([caption      |-> [template |-> template,
                                                 title    |-> Get(r.result_data[1], "title", None)],
                               chat_id      |-> r.cb[1].message.chat.id,
                               message_id   |-> r.cb[1].message.message_id,
                               parse_mode   |-> "Markdown",
                               reply_markup |-> keyboard]),
              !.pc = "hc_edit_caption"]

\* handle_callback after its cache read, up to its next await.
HandleCallbackAfterGet(r, data_str) ==
    IF data_str = None THEN [r EXCEPT !.pc = "hc_answer_expired"]
    ELSE
      LET r1 == [r EXCEPT !.result_data = Some(JsonLoads(data_str[1]))]
          rd == r1.result_data[1]
      IN  CASE r.action = <<"view">> ->
                 IF Len(r.parts) < 2 THEN Raise(r1, "IndexError")
                 ELSE CaptionRender(r1, "select_language",
                                    LanguageKeyboard(rd, r.parts[2], r.media_id))
            [] r.action = <<"nav">> -> PaginationEnter(r1)
            [] r.action = <<"details">> ->
                 CaptionRender(r1, "details",
                     [inline_keyboard |-> << <<BackToMainButton(r.media_id)>> >>])
            [] r.action = <<"back">> ->
                 IF Len(r.parts) < 2 THEN Raise(r1, "IndexError")
                 ELSE IF r.parts[2] = <<"main">>
                      THEN CaptionRender(r1, "main_menu", BackMainKeyboard(r.media_id))
                      ELSE Return(r1)
            [] OTHER -> Return(r1)

\* handle_pagination from its json.loads to its edit: the image list is
\* selected, the index clamped and the keyboard built.
PaginationRender(r, data_str) ==
    LET a            == r.pg_args[1]
        data         == JsonLoads(data_str[1])
        image_list   == GetS(GetS(Get(data, "images", EmptyDict),
                                  a.media_type, EmptyDict), a.lang, <<>>)
        total_images == Len(image_list)
        new_index    == ClampIndex(a.current_index, total_images)
    IN  IF total_images = 0 THEN [r EXCEPT !.pc = "pg_answer_noimages"]
        ELSE IF ~PyIndexOk(image_list, new_index) THEN PaginationCatch(r, "IndexError")
        ELSE [r EXCEPT
                !.pg_render = Some(
                    [image_list   |-> image_list,
                     total_images |-> total_images,
                     new_index    |-> new_index,
                     media        |-> [type  |-> "photo",
                                       media |-> PyIndex(image_list, new_index)],
                     chat_id      |-> r.cb[1].message.chat.id,
                     message_id   |-> r.cb[1].message.message_id,
                     reply_markup |->
                         [inline_keyboard |->
                             PaginationButtons(a.media_type, a.lang, new_index,
                                               total_images, a.media_id)]]),
                !.pc = "pg_edit_media"]

\* PaginationAfterGet without the check of the cache read: json.loads(None)
\* raises TypeError inside the try.  The variant C2 is checked against.
PaginationAfterGetUnchecked(r, data_str) ==
    IF data_str = None THEN PaginationCatch(r, "TypeError")
    ELSE PaginationRender(r, data_str)

\* PaginationAfterGet without the check for an empty image list: the index
\* is clamped to 0 and image_list[0] raises IndexError inside the try.  The
\* variant C26 is checked against.
PaginationAfterGetNoEmptyCheck(r, data_str) ==
    IF data_str = None THEN [r EXCEPT !.pc = "pg_answer_expired"]
    ELSE IF GetS(GetS(Get(JsonLoads(data_str[1]), "images", EmptyDict),
                      r.pg_args[1].media_type, EmptyDict),
                 r.pg_args[1].lang, <<>>) = <<>>
         THEN PaginationCatch(r, "IndexError")
         ELSE PaginationRender(r, data_str)

\* handle_pagination after its cache read, up to its next await: a miss is
\* answered with the session-expired alert.
PaginationAfterGet(r, data_str) ==
    IF data_str = None THEN [r EXCEPT !.pc = "pg_answer_expired"]
    ELSE PaginationRender(r, data_str)

\* A new callback delivery enters handle_callback(bot, cb, env).
CallbackDelivery(p, data) ==
    /\ Free(proc[p])
    /\ proc' = [proc EXCEPT ![p] =
                   HandleCallbackEnter(Fresh("handle_callback"), Callback(data))]
    /\ UNCHANGED <<message_handlers, callback_query_handlers, cache>>

\* HcGet as a read that consumes the entry it finds: the variant C16 is
\* checked against.
HcGetConsuming(p) ==
    /\ proc[p].pc = "hc_get"
    /\ LET key      == CacheKey(proc[p].media_id)
           data_str == KvGet(cache, key)
       IN  /\ proc' = [proc EXCEPT ![p] =
                          HandleCallbackAfterGet(
                              Traced(@, [op |-> "kv_get", key |-> key,
                                         hit |-> data_str # None]),
                              data_str)]
           /\ cache' = IF data_str # None THEN KvDrop(cache, key) ELSE cache
    /\ UNCHANGED <<message_handlers, callback_query_handlers>>

\* data_str = await env.BOT_STATE.get(f"media:{media_id}") in handle_callback.
HcGet(p) ==
    /\ proc[p].pc = "hc_get"
    /\ LET key      == CacheKey(proc[p].media_id)
           data_str == KvGet(cache, key)
       IN  proc' = [proc EXCEPT ![p] =
                       HandleCallbackAfterGet(
                           Traced(@, [op |-> "kv_get", key |-> key,
                                      hit |-> data_str # None]),
                           data_str)]
    /\ UNCHANGED <<message_handlers, callback_query_handlers, cache>>

\* await bot.edit_message_caption(...): the attribute lookup on the bot,
\* then the request.
HcEditCaption(p) ==
    /\ proc[p].pc = "hc_edit_caption"
    /\ proc' = [proc EXCEPT ![p] =
                   IF BotHasMethod("edit_message_caption")
                   THEN [Traced(@, ApiCall("editMessageCaption", @.render[1]))
                            EXCEPT !.pc = "hc_answer"]
                   ELSE Raise(@, "AttributeError")]
    /\ UNCHANGED <<message_handlers, callback_query_handlers, cache>>

\* PgGet as a read that consumes the entry it finds: the variant C23 is
\* checked against.
PgGetConsuming(p) ==
    /\ proc[p].pc = "pg_get"
    /\ LET key      == CacheKey(proc[p].pg_args[1].media_id)
           data_str == KvGet(cache, key)
       IN  /\ proc' = [proc EXCEPT ![p] =
                          PaginationAfterGet(
                              Traced(@, [op |-> "kv_get", key |-> key,
                                         hit |-> data_str # None]),
                              data_str)]
           /\ cache' = IF data_str # None THEN KvDrop(cache, key) ELSE cache
    /\ UNCHANGED <<message_handlers, callback_query_handlers>>

\* data_str = await env.BOT_STATE.get(f"media:{media_id}") in handle_pagination.
PgGet(p) ==
    /\ proc[p].pc = "pg_get"
    /\ LET key      == CacheKey(proc[p].pg_args[1].media_id)
           data_str == KvGet(cache, key)
       IN  proc' = [proc EXCEPT ![p] =
                       PaginationAfterGet(
                           Traced(@, [op |-> "kv_get", key |-> key,
                                      hit |-> data_str # None]),
                           data_str)]
    /\ UNCHANGED <<message_handlers, callback_query_handlers, cache>>

\* await bot.edit_message_media(...) inside the try of handle_pagination.
PgEditMedia(p) ==
    /\ proc[p].pc = "pg_edit_media"
    /\ proc' = [proc EXCEPT ![p] =
                   IF BotHasMethod("edit_message_media")
                   THEN [Traced(@, ApiCall("editMessageMedia",
                                           [media        |-> @.pg_render[1].media,
                                            chat_id      |-> @.pg_render[1].chat_id,
                                            message_id   |-> @.pg_render[1].message_id,
                                            reply_markup |-> @.pg_render[1].reply_markup]))
                            EXCEPT !.pc = "pg_answer"]
                   ELSE PaginationCatch(@, "AttributeError")]
    /\ UNCHANGED <<message_handlers, callback_query_handlers, cache>>

\* await bot.answer_callback_query(cb['id']): the plain acknowledgment of a
\* noop and of a completed edit.
AnswerPlain(p) ==
    /\ proc[p].pc \in {"hc_answer", "pg_answer"}
    /\ proc' = [proc EXCEPT ![p] =
                   Return(Traced(@, AnswerCallbackQuery(@.cb[1].id, EmptyDict)))]
    /\ UNCHANGED <<message_handlers, callback_query_handlers, cache>>

\* AnswerExpired without the return after the alert of handle_pagination:
\* json.loads(None) then raises inside the try and the except clause answers
\* again.  The variant C24 is checked against.
AnswerExpiredNoReturn(p) ==
    /\ proc[p].pc \in {"hc_answer_expired", "pg_answer_expired"}
    /\ proc' = [proc EXCEPT ![p] =
                   LET answered == Traced(@, AnswerCallbackQuery(@.cb[1].id,
                                       [text |-> ExpiredText, show_alert |-> TRUE]))
                   IN  IF @.pc = "pg_answer_expired"
                       THEN PaginationCatch(answered, "TypeError")
                       ELSE Return(answered)]
    /\ UNCHANGED <<message_handlers, callback_query_handlers, cache>>

\* The session-expired alert of handle_callback and of handle_pagination.
AnswerExpired(p) ==
    /\ proc[p].pc \in {"hc_answer_expired", "pg_answer_expired"}
    /\ proc' = [proc EXCEPT ![p] =
                   Return(Traced(@, AnswerCallbackQuery(@.cb[1].id,
                              [text |-> ExpiredText, show_alert |-> TRUE])))]
    /\ UNCHANGED <<message_handlers, callback_query_handlers, cache>>

\* The no-images notice of handle_pagination.
AnswerNoImages(p) ==
    /\ proc[p].pc = "pg_answer_noimages"
    /\ proc' = [proc EXCEPT ![p] =
                   Return(Traced(@, AnswerCallbackQuery(@.cb[1].id,
                              [text |-> NoImagesText])))]
    /\ UNCHANGED <<message_handlers, callback_query_handlers, cache>>

\* The except clause of handle_pagination.
AnswerError(p) ==
    /\ proc[p].pc = "pg_answer_error"
    /\ proc' = [proc EXCEPT ![p] =
                   Return(Traced(@, AnswerCallbackQuery(@.cb[1].id,
                              [text |-> ErrorText(@.err[1]), show_alert |-> TRUE])))]
    /\ UNCHANGED <<message_handlers, callback_query_handlers, cache>>

\* The TTL of a cache entry runs out.  It does not within the delivery
\* that has just written the entry: the handler goes on to send_main_menu
\* at once, the TTL is an hour.
Expire(key) ==
    /\ key \in DOMAIN cache
    /\ \A p \in Procs :
           proc[p].pc = "hm_send_photo" => CacheKey(proc[p].data[1].media_id) # key
    /\ cache' = KvDrop(cache, key)
    /\ UNCHANGED <<message_handlers, callback_query_handlers, proc>>


\* ------------------------------------------------------------------------
\* The search path: handle_message and send_main_menu
\* ------------------------------------------------------------------------

\* The texts a message may carry: the commands, an unknown command, empty
\* and blank text, a query without a year and queries with one.
MessageTexts ==
    { <<"/", "start">>, <<"/", "about">>, <<"/", "faq">>, <<"/", "disclaimer">>,
      <<"/", "help">>, <<>>, <<" ">>, <<"Matrix">>,
      <<"Matrix", " ", "1", "9", "9", "9">>,
      <<" ", "Up", " ", "2", "0", "0", "9", " ">> }

\* The messages delivered: with the texts above, and one without text.
Messages ==
    { [chat |-> [id |-> 100], text |-> t] : t \in MessageTexts }
    \cup { [chat |-> [id |-> 100]] }

\* text.strip()
RECURSIVE LStrip(_)
LStrip(s) == IF Len(s) > 0 /\ s[1] = " " THEN LStrip(Tail(s)) ELSE s

RECURSIVE RStrip(_)
RStrip(s) ==
    IF Len(s) > 0 /\ s[Len(s)] = " " THEN RStrip(SubSeq(s, 1, Len(s) - 1)) ELSE s

Strip(s) == RStrip(LStrip(s))

\* text.replace(' ', '+')
PlusForSpace(s) == [k \in 1..Len(s) |-> IF s[k] = " " THEN "+" ELSE s[k]]

\* The commands that are answered, and the text each is answered with.
CommandReplies ==
    [start |-> "welcome", about |-> "ABOUT_TEXT", faq |-> "FAQ_TEXT",
     disclaimer |-> "DISCLAIMER_TEXT"]

\* What the search request may end with: a transport error, a response that
\* is not 200, a 200 whose body is not JSON, a 200 with a search result.
FetchOutcomes ==
    { [kind |-> "error"], [kind |-> "status", status |-> 404],
      [kind |-> "badjson", status |-> 200] }
    \cup { [kind |-> "json", status |-> 200, body |-> b] : b \in SearchResults }

\* A reply of handle_message waiting to be sent by bot.send_message.
Reply(r, text, options) ==
    [r EXCEPT !.pending = Some(SendMessage(100, text, options)),
              !.pc = "hm_send_message"]

\* handle_message from its entry to its first await: commands, empty text,
\* and the start of a search.
HandleMessageEnter(r, message) ==
    LET text == Strip(Get(message, "text", <<>>))
        r1   == [r EXCEPT !.text = text]
    IN  IF StartsWithSlash(text)
        THEN IF Len(text) = 2 /\ text[2] \in DOMAIN CommandReplies
             THEN Reply(r1, <<CommandReplies[text[2]]>>,
                        IF text[2] = "start" THEN EmptyDict
                        ELSE [parse_mode |-> "Markdown"])
             ELSE Return(r1)
        ELSE IF text = <<>> THEN Return(r1)
        ELSE [r1 EXCEPT !.pc = "hm_chat_action"]

\* HandleMessageAfterAction without the year check: the variant C19 is
\* checked against.
HandleMessageAfterActionNoYear(r) == [r EXCEPT !.pc = "hm_fetch"]

\* handle_message after the chat action: the year check.
HandleMessageAfterAction(r) ==
    IF ~HasDigit(r.text)
    THEN Reply(r, <<"Please include the year for better results">>, EmptyDict)
    ELSE [r EXCEPT !.pc = "hm_fetch"]

\* Whether a JSON value is falsy: absent (None), an empty string, zero.
Falsy(opt) == opt = None \/ opt[1] = <<>> \/ opt[1] = <<"0">>

\* handle_message after the search request, up to its next await.
HandleMessageAfterFetch(r, outcome) ==
    CASE outcome.kind = "error" ->
           Reply(r, <<"An error occurred during the search: ", "FetchError">>, EmptyDict)
      [] outcome.kind = "status" ->
           Reply(r, <<"Sorry, couldn't find anything for ">> \o r.text, EmptyDict)
      [] outcome.kind = "badjson" ->
           Reply(r, <<"An error occurred during the search: ", "JSONDecodeError">>,
                 EmptyDict)
      [] OTHER ->
           IF Falsy(IF "media_id" \in DOMAIN outcome.body
                    THEN Some(outcome.body.media_id) ELSE None)
           THEN Reply(r, <<"The search was successful, but the result is missing a required ID.">>,
                      EmptyDict)
           ELSE [r EXCEPT !.data = Some(outcome.body), !.pc = "hm_put"]

\* MainMenuPhoto with a keyboard whose tokens are built from the title in
\* place of the media id: the variant C17 is checked against.
MainMenuPhotoByTitle(chat_id, data) ==
    SendPhoto(chat_id,
              Get(data, "poster_url", <<"https", ":", "/", "/", "placeholder">>),
              [caption      |-> [template |-> "main_menu",
                                 title    |-> Get(data, "title", <<"N/A">>)],
               parse_mode   |-> "Markdown",
               reply_markup |-> MainMenuKeyboard(Get(data, "title", <<"N/A">>))])

\* The request send_main_menu makes: the poster with the main-menu
\* caption and keyboard.
MainMenuPhoto(chat_id, data) ==
    SendPhoto(chat_id,
              Get(data, "poster_url", <<"https", ":", "/", "/", "placeholder">>),
              [caption      |-> [template |-> "main_menu",
                                 title    |-> Get(data, "title", <<"N/A">>)],
               parse_mode   |-> "Markdown",
               reply_markup |-> MainMenuKeyboard(data.media_id)])

\* A new message delivery enters handle_message(bot, message, env).
MessageDelivery(p, message) ==
    /\ Free(proc[p])
    /\ proc' = [proc EXCEPT ![p] = HandleMessageEnter(Fresh("handle_message"), message)]
    /\ UNCHANGED <<message_handlers, callback_query_handlers, cache>>

\* await bot.send_chat_action(chat_id, "typing")
HmChatAction(p) ==
    /\ proc[p].pc = "hm_chat_action"
    /\ proc' = [proc EXCEPT ![p] =
                   HandleMessageAfterAction(Traced(@, SendChatAction(100, "typing")))]
    /\ UNCHANGED <<message_handlers, callback_query_handlers, cache>>

\* response = await fetch(api_url), and data = await response.json()
HmFetch(p, outcome) ==
    /\ proc[p].pc = "hm_fetch"
    /\ proc' = [proc EXCEPT ![p] =
                   HandleMessageAfterFetch(
                       Traced(@, [op |-> "fetch", query |-> PlusForSpace(@.text),
                                  outcome |-> outcome]),
                       outcome)]
    /\ UNCHANGED <<message_handlers, callback_query_handlers, cache>>

\* await env.BOT_STATE.put(f"media:{media_id}", json.dumps(data),
\* expiration_ttl=3600)
HmPut(p) ==
    /\ proc[p].pc = "hm_put"
    /\ LET data == proc[p].data[1]
           key  == CacheKey(data.media_id)
       IN  /\ cache' = KvPut(cache, key, JsonDumps(data), SessionTtl)
           /\ proc' = [proc EXCEPT ![p] =
                          [Traced(@, [op |-> "kv_put", key |-> key,
                                      value |-> JsonDumps(data), ttl |-> SessionTtl])
                              EXCEPT !.pc = "hm_send_photo"]]
    /\ UNCHANGED <<message_handlers, callback_query_handlers>>

\* await bot.send_photo(...) of send_main_menu.
HmSendPhoto(p) ==
    /\ proc[p].pc = "hm_send_photo"
    /\ proc' = [proc EXCEPT ![p] = Return(Traced(@, MainMenuPhoto(100, @.data[1])))]
    /\ UNCHANGED <<message_handlers, callback_query_handlers, cache>>

\* await bot.send_message(chat_id, text, ...) of handle_message.
HmSendMessage(p) ==
    /\ proc[p].pc = "hm_send_message"
    /\ proc' = [proc EXCEPT ![p] = Return(Traced(@, @.pending[1]))]
    /\ UNCHANGED <<message_handlers, callback_query_handlers, cache>>

\* ------------------------------------------------------------------------
\* The handlers entry.py registers
\* ------------------------------------------------------------------------

\* A handler function: its name and the number of its positional parameters.
HandleMessageFn == [name |-> "handle_message", params |-> 3]

HandleCallbackFn == [name |-> "handle_callback", params |-> 3]

\* ------------------------------------------------------------------------
\* The navigation specification: deliveries handled by the handlers, one at
\* a time, over a cache whose entries may expire at any moment.
\* ------------------------------------------------------------------------

Init ==
    /\ message_handlers = <<HandleMessageFn>>
    /\ callback_query_handlers = <<HandleCallbackFn>>
    /\ cache = EmptyDict
    /\ proc = [p \in Procs |-> Fresh("none")]

Next ==
    \/ \E p \in SeqProcs :
          \/ \E data \in CallbackData : CallbackDelivery(p, data)
          \/ HcGet(p)
          \/ HcEditCaption(p)
          \/ PgGet(p)
          \/ PgEditMedia(p)
          \/ AnswerPlain(p)
          \/ AnswerExpired(p)
          \/ AnswerNoImages(p)
          \/ AnswerError(p)
          \/ \E message \in Messages : MessageDelivery(p, message)
          \/ HmChatAction(p)
          \/ \E outcome \in FetchOutcomes : HmFetch(p, outcome)
          \/ HmPut(p)
          \/ HmSendPhoto(p)
          \/ HmSendMessage(p)
    \/ \E key \in DOMAIN cache : Expire(key)

Spec == Init /\ [][Next]_vars


\* ------------------------------------------------------------------------
\* The Update Dispatcher and the Worker entry point
\* ------------------------------------------------------------------------

\* Handlers of the BotHandler type, Callable[[TelegramBot, Any], ...]: two
\* positional parameters.  Their bodies are not part of the repository: an
\* invocation returns or raises.
GenericHandlers == { [name |-> "h1", params |-> 2], [name |-> "h2", params |-> 2] }

MessageHandlerPool == {HandleMessageFn} \cup GenericHandlers

CallbackHandlerPool == {HandleCallbackFn} \cup GenericHandlers

\* The positional parameters of TelegramBot.handle_update after self, the
\* arguments Default.fetch calls it with, and the arguments route_update
\* calls a handler with.
HandleUpdateParams == 1

FetchHandleUpdateArgs == 2

RouteHandlerArgs == 2

\* The Updates delivered: "message" and "callback_query" each absent, empty
\* or carrying a payload.
UpdatePayloads ==
    [message        |-> [chat |-> [id |-> 100], text |-> <<"/", "start">>],
     callback_query |-> Callback(NoopToken)]

UpdateWith(keys, empty) ==
    [k \in keys \cup {"update_id"} |->
        IF k = "update_id" THEN 1
        ELSE IF k \in empty THEN EmptyDict
        ELSE UpdatePayloads[k]]

Updates ==
    { UpdateWith(keys, empty) :
          keys \in SUBSET {"message", "callback_query"},
          empty \in SUBSET {"message", "callback_query"} }

\* 'key' in update and update[key]
Carries(update, key) == key \in DOMAIN update /\ DOMAIN update[key] # {}

\* The requests the Worker receives.
Requests ==
    { [method |-> "POST", body |-> Some(u)] : u \in Updates }
    \cup { [method |-> "POST", body |-> None] }
    \cup { [method |-> "GET", pathname |-> path] :
               path \in {"/", "/delete", "/status", "/webhook"} }
    \cup { [method |-> "PUT"] }

\* Response(body, status=...)
Response(status, body) == [status |-> status, body |-> body]

\* The last statement of Default.fetch, reached by every path that has not
\* returned.
FetchNotFound(r) == Return([r EXCEPT !.response = Some(Response(404, "Not Found"))])

\* except Exception as e: print(...) in Default.fetch; control then leaves
\* the if statement.
FetchCatch(r, exc) == FetchNotFound([r EXCEPT !.printed = Append(@, exc)])

\* handle_update returns to its caller.
Finish(r) == IF r.entry = "fetch" THEN FetchNotFound(r) ELSE Return(r)

\* An exception leaves handle_update for its caller.
Propagate(r, exc) == IF r.entry = "fetch" THEN FetchCatch(r, exc) ELSE Raise(r, exc)

\* Branches with two independent ifs: the variant C9 is checked against.
BranchesBoth(update) ==
    (IF Carries(update, "message") THEN <<"message">> ELSE <<>>)
    \o (IF Carries(update, "callback_query") THEN <<"callback_query">> ELSE <<>>)

\* The branches of route_update an Update takes: if message, elif callback.
Branches(update) ==
    IF Carries(update, "message") THEN <<"message">>
    ELSE IF Carries(update, "callback_query") THEN <<"callback_query">>
    ELSE <<>>

HandlersOf(kind) ==
    IF kind = "message" THEN message_handlers ELSE callback_query_handlers

\* LoopExhausted for a dispatcher that stops at the first handler: the
\* variant C8 is checked against.
LoopExhaustedAfterFirst(idx, handlers) == idx >= 1 \/ idx >= Len(handlers)

\* Whether the for loop over a handler list has no handler left, idx
\* handlers having been called.
LoopExhausted(idx, handlers) == idx >= Len(handlers)

\* route_update from the head of a loop to its next handler call, or to its
\* return.  fired collects the branches whose body was entered.
RECURSIVE RouteAdvance(_)
RouteAdvance(r) ==
    IF r.branches = <<>> THEN Finish([r EXCEPT !.ru = "returned"])
    ELSE LET r1 == [r EXCEPT !.fired = @ \cup {Head(r.branches)}]
         IN  IF LoopExhausted(r.idx, HandlersOf(Head(r.branches)))
             THEN RouteAdvance([r1 EXCEPT !.branches = Tail(@), !.idx = 0])
             ELSE [r1 EXCEPT !.pc = "ru_call"]

\* HandlerFaulted for a loop that swallows the exception and goes on with
\* the next handler: the variant C10 is checked against.
HandlerFaultSwallowed(r, exc) == RouteAdvance([r EXCEPT !.idx = @ + 1])

\* A handler call raised: route_update has no try, the exception leaves it
\* and handle_update.
HandlerFaulted(r, exc) == Propagate([r EXCEPT !.ru = "raised"], exc)

\* Dispatcher.route_update(bot, update)
RouteUpdateEnter(r, update) ==
    RouteAdvance([r EXCEPT !.ru = "running", !.branches = Branches(update),
                           !.fired = {}, !.idx = 0])

\* bot.handle_update called with nargs positional arguments.
HandleUpdateEnter(r, update, nargs, hasDispatcher) ==
    LET r1 == [r EXCEPT !.update = Some(update)]
    IN  IF nargs # HandleUpdateParams THEN Propagate(r1, "TypeError")
        ELSE IF hasDispatcher THEN RouteUpdateEnter(r1, update)
        ELSE Finish([r1 EXCEPT !.printed = Append(@, "no dispatcher")])

\* The entry of a log: handler k of a kind is called, returned or raised.
LogEvent(ev, r) ==
    LET kind == Head(r.branches)
        k    == r.idx + 1
    IN  [ev |-> ev, kind |-> kind, k |-> k, name |-> HandlersOf(kind)[k].name,
         payload |-> r.update[1][kind], env |-> FALSE]

Logged(r, ev) == [r EXCEPT !.log = Append(@, LogEvent(ev, r))]

\* @dispatcher.on_message()
OnMessage(h) ==
    /\ \A p \in Procs : proc[p].pc = "idle"
    /\ Len(message_handlers) < MaxHandlers
    /\ message_handlers' = Append(message_handlers, h)
    /\ UNCHANGED <<callback_query_handlers, cache, proc>>

\* @dispatcher.on_callback_query()
OnCallbackQuery(h) ==
    /\ \A p \in Procs : proc[p].pc = "idle"
    /\ Len(callback_query_handlers) < MaxHandlers
    /\ callback_query_handlers' = Append(callback_query_handlers, h)
    /\ UNCHANGED <<message_handlers, cache, proc>>

\* Default.fetch from its entry to its first await, or to its return.
FetchEnter(r, request) ==
    LET r1 == [r EXCEPT !.request = Some(request)]
    IN  IF request.method = "POST" THEN [r1 EXCEPT !.pc = "f_read_json"]
        ELSE IF request.method = "GET"
        THEN CASE request.pathname = "/" -> [r1 EXCEPT !.pc = "f_set_my_commands"]
               [] request.pathname = "/delete" -> [r1 EXCEPT !.pc = "f_delete_webhook"]
               [] request.pathname = "/status" -> [r1 EXCEPT !.pc = "f_status"]
               [] OTHER -> FetchNotFound(r1)
        ELSE FetchNotFound(r1)

\* A request reaches Default.fetch.
FetchRequest(p, request) ==
    /\ Free(proc[p])
    /\ proc' = [proc EXCEPT ![p] = FetchEnter(Fresh("fetch"), request)]
    /\ UNCHANGED <<message_handlers, callback_query_handlers, cache>>

\* update = await request.json(), then bot.handle_update(update, env).
FReadJson(p) ==
    /\ proc[p].pc = "f_read_json"
    /\ proc' = [proc EXCEPT ![p] =
                   IF @.request[1].body = None THEN FetchCatch(@, "JSONDecodeError")
                   ELSE HandleUpdateEnter(@, @.request[1].body[1],
                                          FetchHandleUpdateArgs, TRUE)]
    /\ UNCHANGED <<message_handlers, callback_query_handlers, cache>>

\* await bot.set_my_commands(commands) of the "/" route.
FSetMyCommands(p) ==
    /\ proc[p].pc = "f_set_my_commands"
    /\ proc' = [proc EXCEPT ![p] =
                   [Traced(@, ApiCall("setMyCommands",
                                      [commands |-> <<"start", "help">>]))
                       EXCEPT !.pc = "f_set_webhook"]]
    /\ UNCHANGED <<message_handlers, callback_query_handlers, cache>>

\* result = await bot.set_webhook(...) of the "/" route, and its response.
FSetWebhook(p, ok) ==
    /\ proc[p].pc = "f_set_webhook"
    /\ proc' = [proc EXCEPT ![p] =
                   Return([Traced(@, ApiCall("setWebhook",
                                             [url |-> "webhook_url",
                                              drop_pending_updates |-> TRUE]))
                              EXCEPT !.response =
                                  Some(IF ok THEN Response(200, "Webhook set")
                                       ELSE Response(500, "Failed to set webhook"))])]
    /\ UNCHANGED <<message_handlers, callback_query_handlers, cache>>

\* result = await bot.delete_webhook() of the "/delete" route.
FDeleteWebhook(p, ok) ==
    /\ proc[p].pc = "f_delete_webhook"
    /\ proc' = [proc EXCEPT ![p] =
                   Return([Traced(@, ApiCall("deleteWebhook", EmptyDict))
                              EXCEPT !.response =
                                  Some(IF ok THEN Response(200, "Webhook deleted")
                                       ELSE Response(500, "Failed to delete webhook"))])]
    /\ UNCHANGED <<message_handlers, callback_query_handlers, cache>>

\* result = await bot._post_json("getWebhookInfo", {}) of the "/status" route.
FStatus(p) ==
    /\ proc[p].pc = "f_status"
    /\ proc' = [proc EXCEPT ![p] =
                   Return([Traced(@, ApiCall("getWebhookInfo", EmptyDict))
                              EXCEPT !.response = Some(Response(200, "webhook info"))])]
    /\ UNCHANGED <<message_handlers, callback_query_handlers, cache>>

\* A caller passes an Update to bot.handle_update(update_data).
HandleUpdateCall(p, update, hasDispatcher) ==
    /\ Free(proc[p])
    /\ proc' = [proc EXCEPT ![p] =
                   HandleUpdateEnter(Fresh("handle_update"), update,
                                     HandleUpdateParams, hasDispatcher)]
    /\ UNCHANGED <<message_handlers, callback_query_handlers, cache>>

\* await handler(bot, update[kind]): the call binds two arguments to the
\* handler's parameters.
RuCall(p) ==
    /\ proc[p].pc = "ru_call"
    /\ proc' = [proc EXCEPT ![p] =
                   IF HandlersOf(Head(@.branches))[@.idx + 1].params # RouteHandlerArgs
                   THEN HandlerFaulted(Logged(@, "raise"), "TypeError")
                   ELSE [Logged(@, "start") EXCEPT !.pc = "in_handler"]]
    /\ UNCHANGED <<message_handlers, callback_query_handlers, cache>>

\* The awaited handler returns; the loop goes on.
HandlerReturns(p) ==
    /\ proc[p].pc = "in_handler"
    /\ proc' = [proc EXCEPT ![p] =
                   RouteAdvance([Logged(@, "end") EXCEPT !.idx = @ + 1])]
    /\ UNCHANGED <<message_handlers, callback_query_handlers, cache>>

\* The awaited handler raises.
HandlerRaises(p) ==
    /\ proc[p].pc = "in_handler"
    /\ proc' = [proc EXCEPT ![p] = HandlerFaulted(Logged(@, "raise"), "HandlerFault")]
    /\ UNCHANGED <<message_handlers, callback_query_handlers, cache>>

\* ------------------------------------------------------------------------
\* The dispatch specification: handlers are registered at startup, then
\* requests reach the Worker and Updates reach handle_update, one at a time.
\* ------------------------------------------------------------------------

InitDispatch ==
    /\ message_handlers = <<>>
    /\ callback_query_handlers = <<>>
    /\ cache = EmptyDict
    /\ proc = [p \in Procs |-> Fresh("none")]

NextDispatch ==
    \/ \E h \in MessageHandlerPool : OnMessage(h)
    \/ \E h \in CallbackHandlerPool : OnCallbackQuery(h)
    \/ \E p \in SeqProcs :
          \/ \E request \in Requests : FetchRequest(p, request)
          \/ FReadJson(p)
          \/ FSetMyCommands(p)
          \/ \E ok \in BOOLEAN : FSetWebhook(p, ok)
          \/ \E ok \in BOOLEAN : FDeleteWebhook(p, ok)
          \/ FStatus(p)
          \/ \E update \in Updates, hasDispatcher \in BOOLEAN :
                HandleUpdateCall(p, update, hasDispatcher)
          \/ RuCall(p)
          \/ HandlerReturns(p)
          \/ HandlerRaises(p)

SpecDispatch == InitDispatch /\ [][NextDispatch]_vars


\* ------------------------------------------------------------------------
\* The Protocol Client on its own: one operation of class TelegramBot at a
\* time, called with options of every shape, over a transport that may
\* fail.
\* ------------------------------------------------------------------------

\* The buttons a caller may pass: with the canonical field, with one alias,
\* with both aliases, with an alias next to the canonical field, with an
\* empty alias, and without any callback field.
ClientButtons ==
    { [text |-> <<"A">>, callback_data |-> <<"x">>],
      [text |-> <<"A">>, callbackData |-> <<"x">>],
      [text |-> <<"A">>, callback |-> <<"y">>],
      [text |-> <<"A">>, callbackData |-> <<"x">>, callback |-> <<"y">>],
      [text |-> <<"A">>, callbackData |-> <<"x">>, callback_data |-> <<"z">>],
      [text |-> <<"A">>, callbackData |-> <<>>],
      [text |-> <<"A">>, url |-> <<"https", ":", "/", "/", "t">>] }

\* The reply_markup values a caller may pass: inline keyboards of one row
\* with one or two buttons, and a markup without inline_keyboard.
ClientMarkups ==
    { [inline_keyboard |-> << <<b>> >>] : b \in ClientButtons }
    \cup { [inline_keyboard |->
               << <<[text |-> <<"A">>, callback |-> <<"y">>],
                    [text |-> <<"B">>, callback_data |-> <<"x">>]>> >>] }
    \cup { [remove_keyboard |-> TRUE] }

\* The options a caller may pass: none, scalar options, a keyboard, and a
\* value json.dumps cannot serialize (Python bytes, under "thumb": the only
\* such value of the model).
ClientOptions ==
    { EmptyDict, [parse_mode |-> "Markdown"], [thumb |-> "bytes"] }
    \cup { [reply_markup |-> rm] : rm \in ClientMarkups }

\* Whether json.dumps(payload) succeeds.
Serializable(payload) == "thumb" \notin DOMAIN payload

\* isinstance(v, dict) for the value an option holds: reply_markup is the
\* only dict-valued option of the model.
DictValued(k) == k = "reply_markup"

\* payload = {...}; if options: opts = dict(options); if "reply_markup" in
\* opts: payload["reply_markup"] = self._fix_reply_markup(opts.pop(...));
\* payload.update(opts)
WithOptions(base, options) ==
    Merge(IF "reply_markup" \in DOMAIN options
          THEN ("reply_markup" :> FixReplyMarkup(options["reply_markup"])) @@ base
          ELSE base,
          Without(options, "reply_markup"))

\* The payload of send_message and of edit_message_text.
SendMessagePayload(chat_id, text, options) ==
    WithOptions([chat_id |-> chat_id, text |-> text], options)

EditMessageTextPayload(text, options) == WithOptions([text |-> text], options)

\* The payload of _send_file for a URL or a file id.
SendFileJsonPayload(chat_id, file_data, options) ==
    WithOptions([chat_id |-> chat_id, photo |-> file_data], options)

\* The form fields of _send_file for raw bytes: chat_id, then every option
\* but filename and content_type, a dict as json.dumps(v), anything else as
\* str(v).
SendFileFields(chat_id, options) ==
    LET keys == (DOMAIN options) \ {"filename", "content_type"}
    IN  Merge([chat_id |-> [str |-> chat_id]],
              [k \in keys |-> IF DictValued(k) THEN JsonDumps(options[k])
                              ELSE [str |-> options[k]]])

\* {"callback_query_id": id, **(options or {})} and the payload of send_poll:
\* the options are merged as they are.
AnswerCallbackQueryPayload(id, options) ==
    Merge([callback_query_id |-> id], options)

SendPollPayload(chat_id, options) ==
    Merge([chat_id |-> chat_id, question |-> <<"Q">>, options |-> <<"a", "b">>],
          options)

\* The operations called, and for each the API method, whether its body is
\* multipart, and the payload (or form fields) it builds from the options.
ClientOps ==
    { "send_message", "edit_message_text", "send_photo_url", "send_photo_bytes",
      "answer_callback_query", "send_poll" }

ApiMethodOf ==
    [send_message |-> "sendMessage", edit_message_text |-> "editMessageText",
     send_photo_url |-> "sendPhoto", send_photo_bytes |-> "sendPhoto",
     answer_callback_query |-> "answerCallbackQuery", send_poll |-> "sendPoll"]

IsMultipart(op) == op = "send_photo_bytes"

PayloadOf(op, options) ==
    CASE op = "send_message" -> SendMessagePayload(100, <<"hi">>, options)
      [] op = "edit_message_text" -> EditMessageTextPayload(<<"hi">>, options)
      [] op = "send_photo_url" ->
             SendFileJsonPayload(100, <<"https", ":", "/", "/", "img">>, options)
      [] op = "send_photo_bytes" -> SendFileFields(100, options)
      [] op = "answer_callback_query" -> AnswerCallbackQueryPayload(<<"q1">>, options)
      [] OTHER -> SendPollPayload(100, options)

\* One invocation of an operation before any of its code has run.  sent
\* lists the HTTP requests attempted; result is the value returned, fault
\* the exception that left the operation.
ClientFresh ==
    [pc |-> "idle", op |-> "none", options |-> EmptyDict, payload |-> None,
     sent |-> <<>>, result |-> None, fault |-> None]

\* {"ok": False, "description": str(e)}
ErrorResult(e) == [ok |-> FALSE, description |-> e]

\* _post_json: json.dumps(payload) is evaluated before _api_call is
\* entered, outside its try; the multipart body is built without json.dumps
\* of the payload as a whole.
ClientEnter(r, op, options) ==
    LET payload == PayloadOf(op, options)
        r1      == [r EXCEPT !.op = op, !.options = options,
                             !.payload = Some(payload)]
    IN  IF ~IsMultipart(op) /\ ~Serializable(payload)
        THEN Raise(r1, "TypeError")
        ELSE [r1 EXCEPT !.pc = "api_fetch"]

\* The body and content type _api_call posts.
RequestOf(r) ==
    [method       |-> ApiMethodOf[r.op],
     content_type |-> IF IsMultipart(r.op) THEN "multipart/form-data"
                      ELSE "application/json",
     body         |-> IF IsMultipart(r.op)
                      THEN [fields |-> r.payload[1],
                            file   |-> [name |-> "photo", filename |-> "photo.jpg",
                                        content_type |-> "image/jpeg"]]
                      ELSE JsonDumps(r.payload[1])]

\* _api_call after its fetch: a transport failure is caught and returned.
ApiCallAfterFetch(r, arrived) ==
    LET r1 == [r EXCEPT !.sent = Append(@, RequestOf(r))]
    IN  IF arrived THEN [r1 EXCEPT !.pc = "api_json"]
        ELSE Return([r1 EXCEPT !.result = Some(ErrorResult("transport"))])

\* The bodies a response may have: not JSON, a success, an API error.
ResponseBodies ==
    { [parsed |-> FALSE],
      [parsed |-> TRUE, json |-> [ok |-> TRUE]],
      [parsed |-> TRUE, json |-> ErrorResult("Bad Request")] }

\* _api_call after resp.json(): a parse failure is caught and returned.
ApiCallAfterJson(r, body) ==
    Return([r EXCEPT !.result =
               Some(IF body.parsed THEN body.json ELSE ErrorResult("parse"))])

\* A caller invokes an operation of the client.
ClientCall(p, op, options) ==
    /\ Free(proc[p])
    /\ proc' = [proc EXCEPT ![p] = ClientEnter(ClientFresh, op, options)]
    /\ UNCHANGED <<message_handlers, callback_query_handlers, cache>>

\* resp = await fetch(url, method="POST", headers=..., body=body)
ApiFetch(p, arrived) ==
    /\ proc[p].pc = "api_fetch"
    /\ proc' = [proc EXCEPT ![p] = ApiCallAfterFetch(@, arrived)]
    /\ UNCHANGED <<message_handlers, callback_query_handlers, cache>>

\* return await resp.json()
ApiJson(p, body) ==
    /\ proc[p].pc = "api_json"
    /\ proc' = [proc EXCEPT ![p] = ApiCallAfterJson(@, body)]
    /\ UNCHANGED <<message_handlers, callback_query_handlers, cache>>

InitClient ==
    /\ message_handlers = <<>>
    /\ callback_query_handlers = <<>>
    /\ cache = EmptyDict
    /\ proc = [p \in Procs |-> ClientFresh]

NextClient ==
    \E p \in SeqProcs :
        \/ \E op \in ClientOps, options \in ClientOptions : ClientCall(p, op, options)
        \/ \E arrived \in BOOLEAN : ApiFetch(p, arrived)
        \/ \E body \in ResponseBodies : ApiJson(p, body)

SpecClient == InitClient /\ [][NextClient]_vars


\* ------------------------------------------------------------------------
\* The nav token on its own: built from four fields as the renderers build
\* it, then parsed as handle_callback and handle_pagination parse it.
\* ------------------------------------------------------------------------

\* The fields drawn: media types, language codes and media ids without a
\* colon (empty, one atom, several atoms, with a hyphen), and indices of
\* one to three digits of both signs.
TokenFields ==
    [media_type    : {<<"posters">>, <<"backdrops">>, <<>>, <<"a", "-", "b">>},
     lang          : {<<"en">>, <<"null">>, <<>>, <<"pt", "-", "BR">>},
     current_index : {0 - 12, 0 - 1, 0, 1, 9, 10, 105},
     media_id      : {<<"7">>, <<"4", "2">>, <<"-", "1">>, <<"tt", "1">>, <<>>}]

TokenFresh(fields) ==
    [pc |-> "drawn", fields |-> fields, token |-> <<>>, hc |-> None, pg |-> None]

\* f"nav:{media_type}:{lang}:{index}:{media_id}"
TokenBuild(p) ==
    /\ proc[p].pc = "drawn"
    /\ LET f == proc[p].fields
       IN  proc' = [proc EXCEPT ![p] =
                       [@ EXCEPT !.pc = "built",
                                 !.token = NavToken(f.media_type, f.lang,
                                                    f.current_index, f.media_id)]]
    /\ UNCHANGED <<message_handlers, callback_query_handlers, cache>>

\* The token is split by handle_callback, which takes the last field as the
\* media id, and unpacked by handle_pagination.
TokenParse(p) ==
    /\ proc[p].pc = "built"
    /\ LET hc == HandleCallbackEnter(Fresh("handle_callback"), Callback(proc[p].token))
       IN  proc' = [proc EXCEPT ![p] =
                       [@ EXCEPT !.pc = "parsed", !.hc = Some(hc),
                                 !.pg = Some(PaginationEnter(hc))]]
    /\ UNCHANGED <<message_handlers, callback_query_handlers, cache>>

InitToken ==
    /\ message_handlers = <<>>
    /\ callback_query_handlers = <<>>
    /\ cache = EmptyDict
    /\ \E fields \in TokenFields : proc = [p \in Procs |-> TokenFresh(fields)]

NextToken == \E p \in SeqProcs : TokenBuild(p) \/ TokenParse(p)

SpecToken == InitToken /\ [][NextToken]_vars


\* ------------------------------------------------------------------------
\* Concurrent callback deliveries
\*
\* The Worker handles every webhook request in its own invocation: two
\* callback deliveries run handle_callback at the same time and their steps
\* interleave at every await.  They share env.BOT_STATE and nothing else.
\* The cache holds the Session Record a search has written; no search and
\* no expiry happens meanwhile.
\* ------------------------------------------------------------------------

\* The Session Records a search may have left in the cache: the search
\* results that carry a media_id, as handle_message stores them.
LiveRecords == { d \in SearchResults : "media_id" \in DOMAIN d }

\* The cache after handle_message has stored the record data.
CacheAfterSearch(data) ==
    KvPut(EmptyDict, CacheKey(data.media_id), JsonDumps(data), SessionTtl)

\* The callback data of the concurrent deliveries: the tokens of the
\* grammar that reference the media id of the record, and one that
\* references a media id without a record.
ConcurrentCallbackData ==
    { token \in WellFormedTokens :
          LET ps == SplitColon(token) IN ps[Len(ps)] \in MediaIds \cup {<<"noop">>} }
    \cup { ViewToken(<<"posters">>, UnknownMediaId) }

\* One step of a callback delivery, from one await to the next, against the
\* cache kv: the steps of handle_callback and handle_pagination in program
\* order.
AloneStep(r, kv) ==
    CASE r.pc = "hc_get" ->
             LET key      == CacheKey(r.media_id)
                 data_str == KvGet(kv, key)
             IN  HandleCallbackAfterGet(
                     Traced(r, [op |-> "kv_get", key |-> key,
                                hit |-> data_str # None]),
                     data_str)
      [] r.pc = "hc_edit_caption" ->
             IF BotHasMethod("edit_message_caption")
             THEN [Traced(r, ApiCall("editMessageCaption", r.render[1]))
                      EXCEPT !.pc = "hc_answer"]
             ELSE Raise(r, "AttributeError")
      [] r.pc = "pg_get" ->
             LET key      == CacheKey(r.pg_args[1].media_id)
                 data_str == KvGet(kv, key)
             IN  PaginationAfterGet(
                     Traced(r, [op |-> "kv_get", key |-> key,
                                hit |-> data_str # None]),
                     data_str)
      [] r.pc = "pg_edit_media" ->
             IF BotHasMethod("edit_message_media")
             THEN [Traced(r, ApiCall("editMessageMedia",
                                     [media        |-> r.pg_render[1].media,
                                      chat_id      |-> r.pg_render[1].chat_id,
                                      message_id   |-> r.pg_render[1].message_id,
                                      reply_markup |-> r.pg_render[1].reply_markup]))
                      EXCEPT !.pc = "pg_answer"]
             ELSE PaginationCatch(r, "AttributeError")
      [] r.pc \in {"hc_answer", "pg_answer"} ->
             Return(Traced(r, AnswerCallbackQuery(r.cb[1].id, EmptyDict)))
      [] r.pc \in {"hc_answer_expired", "pg_answer_expired"} ->
             Return(Traced(r, AnswerCallbackQuery(r.cb[1].id,
                        [text |-> ExpiredText, show_alert |-> TRUE])))
      [] r.pc = "pg_answer_noimages" ->
             Return(Traced(r, AnswerCallbackQuery(r.cb[1].id,
                        [text |-> NoImagesText])))
      [] r.pc = "pg_answer_error" ->
             Return(Traced(r, AnswerCallbackQuery(r.cb[1].id,
                        [text |-> ErrorText(r.err[1]), show_alert |-> TRUE])))
      [] OTHER -> Return(r)

\* handle_callback(bot, cb, env) run from its entry to its end with no other
\* delivery in flight, against the cache kv.
RECURSIVE RunToEnd(_, _)
RunToEnd(r, kv) == IF Ended(r) THEN r ELSE RunToEnd(AloneStep(r, kv), kv)

RunAlone(cb, kv) ==
    RunToEnd(HandleCallbackEnter(Fresh("handle_callback"), cb), kv)

InitConcurrent ==
    /\ message_handlers = <<HandleMessageFn>>
    /\ callback_query_handlers = <<HandleCallbackFn>>
    /\ \E data \in LiveRecords : cache = CacheAfterSearch(data)
    /\ proc = [p \in Procs |-> Fresh("none")]

NextConcurrent ==
    \E p \in Procs :
        \/ \E data \in ConcurrentCallbackData : CallbackDelivery(p, data)
        \/ HcGet(p)
        \/ HcEditCaption(p)
        \/ PgGet(p)
        \/ PgEditMedia(p)
        \/ AnswerPlain(p)
        \/ AnswerExpired(p)
        \/ AnswerNoImages(p)
        \/ AnswerError(p)

SpecConcurrent == InitConcurrent /\ [][NextConcurrent]_vars

\* ------------------------------------------------------------------------
\* Properties
\* ------------------------------------------------------------------------

\* The outbound requests of a delivery, its acknowledgments, its message
\* edits and its cache reads, in program order.
IsApi(e) == e.op = "api"

IsAnswer(e) == e.op = "api" /\ e.method = "answerCallbackQuery"

IsEdit(e) ==
    e.op = "api" /\ e.method \in {"editMessageCaption", "editMessageMedia",
                                  "editMessageText"}

IsKvGet(e) == e.op = "kv_get"

ApiCalls(r) == SelectSeq(r.trace, IsApi)

Answers(r) == SelectSeq(r.trace, IsAnswer)

Edits(r) == SelectSeq(r.trace, IsEdit)

KvGets(r) == SelectSeq(r.trace, IsKvGet)

\* The image sequence a record holds for a media type and a language.
ImagesOf(record, media_type, lang) ==
    GetS(GetS(Get(record, "images", EmptyDict), media_type, EmptyDict), lang, <<>>)

\* A nav token parsed as handle_pagination parses it: split on ":", five
\* fields, the index converted to an integer.
ParsedNav(token) ==
    LET ps == SplitColon(token)
    IN  IF Len(ps) = 5 /\ ps[1] = <<"nav">> /\ IsIntStr(ps[4])
        THEN <<ps[2], ps[3], StrToInt(ps[4]), ps[5]>>
        ELSE <<>>

\* C1: every callback event handle_callback processes with a token of the
\* grammar (view, nav, details, back, noop; live or expired session) has
\* been answered with answer_callback_query for its id when handling ends.
C1_EveryCallbackAnswered ==
    \A p \in Procs :
        LET r == proc[p]
        IN  (r.entry = "handle_callback" /\ Ended(r)
             /\ r.cb[1].data \in WellFormedTokens)
            => \E i \in 1..Len(Answers(r)) :
                   Answers(r)[i].payload.callback_query_id = r.cb[1].id

\* C2: a view, nav, details or back callback one of whose cache reads
\* (the read of handle_callback or the second read of handle_pagination)
\* finds no entry is answered with the session-expired alert (show_alert
\* true) and nothing else: no message edit, no exception.
C2_CacheMissYieldsExpiredAlert ==
    \A p \in Procs :
        LET r == proc[p]
        IN  (r.entry = "handle_callback"
             /\ r.action \in {<<"view">>, <<"nav">>, <<"details">>, <<"back">>}
             /\ \E i \in 1..Len(KvGets(r)) : ~KvGets(r)[i].hit)
            => /\ r.fault = None
               /\ r.pc \in {"hc_answer_expired", "pg_answer_expired", "done"}
               /\ Edits(r) = <<>>
               /\ Ended(r) =>
                      ApiCalls(r) =
                          << ApiCall("answerCallbackQuery",
                                     [callback_query_id |-> r.cb[1].id,
                                      text |-> ExpiredText,
                                      show_alert |-> TRUE]) >>

\* C2's case: a nav callback whose first read hit and whose second read,
\* in handle_pagination, missed, handled to its end.
C2_Witness ==
    \E p \in Procs :
        LET r == proc[p]
        IN  /\ r.entry = "handle_callback" /\ r.pc = "done"
            /\ r.action = <<"nav">>
            /\ Len(KvGets(r)) = 2
            /\ KvGets(r)[1].hit /\ ~KvGets(r)[2].hit

Labelled(x, label) ==
    { j \in 1..Len(x.reply_markup.inline_keyboard[1]) :
          x.reply_markup.inline_keyboard[1][j].text = label }

\* C6: in every image-view keyboard handle_pagination builds, Prev is
\* present iff the effective index is > 0 and Next iff it is < N-1; with
\* N = 1 neither is.
C6_PrevNextPresence ==
    \A p \in Procs :
        proc[p].pg_render # None =>
            LET x == proc[p].pg_render[1]
                N == Len(x.image_list)
            IN  /\ (Labelled(x, <<"Prev">>) # {}) <=> (x.new_index > 0)
                /\ (Labelled(x, <<"Next">>) # {}) <=> (x.new_index < N - 1)
                /\ N = 1 => Len(x.reply_markup.inline_keyboard[1]) = 1

\* C6's case: a keyboard in the middle of a sequence, with both buttons.
C6_Witness ==
    \E p \in Procs :
        /\ proc[p].pg_render # None
        /\ Labelled(proc[p].pg_render[1], <<"Prev">>) # {}
        /\ Labelled(proc[p].pg_render[1], <<"Next">>) # {}

\* The language keyboard of a view action holds, for every language of the
\* media type with N >= 1 images, a button with the label Label(lang, N)
\* that carries nav:<type>:<lang>:0:<media id>.
C7_ViewPart(Label(_, _)) ==
    \A p \in Procs :
        LET r == proc[p]
        IN  (r.action = <<"view">> /\ r.render # None) =>
                LET kb     == r.render[1].reply_markup.inline_keyboard
                    byLang == GetS(Get(r.result_data[1], "images", EmptyDict),
                                   r.parts[2], EmptyDict)
                IN  \A lang \in DOMAIN byLang :
                        Len(byLang[lang]) >= 1 =>
                            \E i \in 1..Len(kb) :
                                /\ kb[i][1].text = Label(lang, Len(byLang[lang]))
                                /\ kb[i][1].callback_data =
                                       <<"nav", ":">> \o r.parts[2]
                                           \o <<":", lang, ":", "0", ":">> \o r.media_id

\* Resolving nav:<type>:<lang>:i:M with 0 <= i < N selects image i+1 of N,
\* with the indicator i+1/N, a Prev button carrying index i-1 when i > 0
\* and a Next button carrying index i+1 when i < N-1: following Next from
\* index 0 goes through the images in order.
C7_NavPart ==
    \A p \in Procs :
        LET r == proc[p]
        IN  r.pg_render # None =>
                LET a   == r.pg_args[1]
                    x   == r.pg_render[1]
                    i   == a.current_index
                    N   == Len(ImagesOf(r.result_data[1], a.media_type, a.lang))
                    row == x.reply_markup.inline_keyboard[1]
                IN  (0 <= i /\ i < N) =>
                        /\ x.media.media =
                               ImagesOf(r.result_data[1], a.media_type, a.lang)[i + 1]
                        /\ Labelled(x, IntToStr(i + 1) \o <<"/">> \o IntToStr(N)) # {}
                        /\ i > 0 =>
                               \E j \in Labelled(x, <<"Prev">>) :
                                   ParsedNav(row[j].callback_data) =
                                       <<a.media_type, a.lang, i - 1, a.media_id>>
                        /\ i < N - 1 =>
                               \E j \in Labelled(x, <<"Next">>) :
                                   ParsedNav(row[j].callback_data) =
                                       <<a.media_type, a.lang, i + 1, a.media_id>>

\* '<LANG> (N)': the upper-cased language code and the count.
UpperLabel(lang, n) == <<LangUpper[lang], " ", "(">> \o IntToStr(n) \o <<")">>

\* '<LANG> (N)' for a code of two characters, 'No Language (N)' otherwise.
TwoLetterLabel(lang, n) ==
    <<(IF LangLen[lang] = 2 THEN LangUpper[lang] ELSE "No Language"), " ", "(">>
        \o IntToStr(n) \o <<")">>

CalledInOrder(handlers, kind, payload) ==
    [j \in 1..(2 * Len(handlers)) |->
        [ev      |-> IF j % 2 = 1 THEN "start" ELSE "end",
         kind    |-> kind,
         k       |-> (j + 1) \div 2,
         name    |-> handlers[(j + 1) \div 2].name,
         payload |-> payload,
         env     |-> FALSE]]

\* C3: a POST delivery, also one whose handling raised, ends with a
\* successful acknowledgment: status 200 and no exception out of fetch.
C3_PostAcknowledged ==
    \A p \in Procs :
        LET r == proc[p]
        IN  (r.entry = "fetch" /\ Ended(r) /\ r.request[1].method = "POST")
            => /\ r.fault = None
               /\ r.response # None
               /\ r.response[1].status = 200

\* C4: when a POST delivery carrying a message (a callback event) has been
\* handled, every registered message (callback) handler has been invoked
\* with that payload and the environment.
C4_PostReachesHandlers ==
    \A p \in Procs :
        LET r == proc[p]
        IN  (r.entry = "fetch" /\ Ended(r) /\ r.request[1].method = "POST"
             /\ r.request[1].body # None)
            => LET u == r.request[1].body[1]
                   Invoked(handlers, kind) ==
                       \A k \in 1..Len(handlers) :
                           \E i \in 1..Len(r.log) :
                               /\ r.log[i].ev = "start"
                               /\ r.log[i].kind = kind /\ r.log[i].k = k
                               /\ r.log[i].payload = u[kind]
                               /\ r.log[i].env
               IN  /\ Carries(u, "message") => Invoked(message_handlers, "message")
                   /\ (~Carries(u, "message") /\ Carries(u, "callback_query"))
                          => Invoked(callback_query_handlers, "callback_query")

\* C8: route_update calls the handlers of the Update's kind one at a time
\* in registration order, each returning before the next is called, and
\* when it returns every handler of that kind has been called exactly once.
C8_AllHandlersInOrder ==
    \A p \in Procs :
        LET r == proc[p]
        IN  r.ru # "none" =>
                LET kind     == IF Carries(r.update[1], "message") THEN "message"
                                ELSE "callback_query"
                    handlers == IF kind = "message" THEN message_handlers
                                ELSE callback_query_handlers
                    expected == CalledInOrder(handlers, kind, r.update[1][kind])
                IN  /\ \A i \in 1..Len(r.log) :
                           r.log[i].ev # "raise" =>
                               i <= Len(expected) /\ r.log[i] = expected[i]
                    /\ (r.ru = "returned"
                        /\ (Carries(r.update[1], "message")
                            \/ Carries(r.update[1], "callback_query")))
                       => r.log = expected

\* C8's case: route_update returned after two message handlers ran.
C8_Witness ==
    \E p \in Procs :
        /\ proc[p].ru = "returned"
        /\ Carries(proc[p].update[1], "message")
        /\ Len(message_handlers) = 2
        /\ message_handlers[1] # message_handlers[2]
        /\ Len(proc[p].log) = 4

\* C9 as stated: for every Update exactly one of the two branches fires.
C9_ExactlyOneBranch ==
    \A p \in Procs :
        proc[p].ru \in {"returned", "raised"} => Cardinality(proc[p].fired) = 1

\* C9, amended: at most one branch fires, the message branch when the
\* Update carries a message, else the callback branch when it carries a
\* callback event, none when it carries neither; the handlers called for
\* one Update are all of that one kind.
C9_AtMostOneBranch ==
    \A p \in Procs :
        LET r == proc[p]
        IN  r.ru # "none" =>
                /\ Cardinality(r.fired) <= 1
                /\ r.ru \in {"returned", "raised"} =>
                       r.fired = (IF Carries(r.update[1], "message") THEN {"message"}
                                  ELSE IF Carries(r.update[1], "callback_query")
                                       THEN {"callback_query"}
                                  ELSE {})
                /\ \A i \in 1..Len(r.log) : r.log[i].kind \in r.fired

\* C9's case: an Update carrying both payloads has been routed while
\* handlers of both kinds were registered: only the message handlers ran.
C9_Witness ==
    \E p \in Procs :
        LET r == proc[p]
        IN  /\ r.ru = "returned"
            /\ Carries(r.update[1], "message")
            /\ Carries(r.update[1], "callback_query")
            /\ Len(callback_query_handlers) >= 1
            /\ Len(r.log) >= 2
            /\ r.fired = {"message"}

\* C10: when the k-th handler raises, no later handler is called, the k-th
\* is not called again, and the exception has left route_update for its
\* caller.
C10_FaultStopsDispatch ==
    \A p \in Procs :
        LET r == proc[p]
        IN  \A i \in 1..Len(r.log) :
                r.log[i].ev = "raise" =>
                    /\ i = Len(r.log)
                    /\ \A j \in 1..(i - 1) :
                           r.log[j].ev # "raise" /\ r.log[j].k <= r.log[i].k
                    /\ Cardinality({j \in 1..i : r.log[j].ev = "start"
                                                 /\ r.log[j].k = r.log[i].k}) <= 1
                    /\ r.ru = "raised"
                    /\ r.entry = "handle_update" =>
                           r.pc = "raised" /\ r.fault # None

\* C10's case: the first of two handlers raised in its body.
C10_Witness ==
    \E p \in Procs :
        LET r == proc[p]
        IN  /\ r.entry = "handle_update" /\ r.pc = "raised"
            /\ Carries(r.update[1], "message")
            /\ Len(message_handlers) = 2
            /\ Len(r.log) = 2
            /\ r.log[1].ev = "start" /\ r.log[2].ev = "raise" /\ r.log[2].k = 1

\* C11: every operation of the Protocol Client ends by returning a result
\* that carries ok; no exception leaves it, also when the transport fails,
\* the response is not JSON or the payload cannot be serialized.
C11_OperationsNeverRaise ==
    \A p \in Procs :
        LET r == proc[p]
        IN  (r.op \in ClientOps /\ Ended(r))
            => /\ r.fault = None
               /\ r.result # None
               /\ "ok" \in DOMAIN r.result[1]

\* C12: every invocation of an operation of the Protocol Client attempts
\* exactly one HTTP request by the time it ends, and never a second one.
C12_ExactlyOneAttempt ==
    \A p \in Procs :
        LET r == proc[p]
        IN  r.op \in ClientOps
            => /\ Len(r.sent) <= 1
               /\ Ended(r) => Len(r.sent) = 1

\* The operations that pass reply_markup through _fix_reply_markup.
NormalizingOps == {"send_message", "edit_message_text", "send_photo_url"}

\* C13: normalizing a normalized keyboard changes nothing; a button that
\* uses callback_data only is returned unchanged, and a button
\* {callbackData: x} or {callback: x} becomes {callback_data: x}.
C13_NormalizationIdempotent ==
    \A p \in Procs :
        LET r == proc[p]
        IN  (r.op \in NormalizingOps /\ "reply_markup" \in DOMAIN r.options)
            => LET given == r.options["reply_markup"]
                   once  == r.payload[1]["reply_markup"]
               IN  /\ FixReplyMarkup(once) = once
                   /\ "inline_keyboard" \in DOMAIN given =>
                          \A i \in 1..Len(given["inline_keyboard"]) :
                              \A j \in 1..Len(given["inline_keyboard"][i]) :
                                  LET btn == given["inline_keyboard"][i][j]
                                      out == once["inline_keyboard"][i][j]
                                  IN  /\ (DOMAIN btn) \cap {"callbackData", "callback"} = {}
                                             => out = btn
                                      /\ DOMAIN btn = {"text", "callbackData"}
                                             => out = [text |-> btn.text,
                                                       callback_data |-> btn["callbackData"]]
                                      /\ DOMAIN btn = {"text", "callback"}
                                             => out = [text |-> btn.text,
                                                       callback_data |-> btn["callback"]]

\* C14: every request send_message, edit_message_text and the file-sending
\* operations (JSON and multipart) post for a call given a reply_markup
\* carries the normalized keyboard.
C14_KeyboardNormalizedEverywhere ==
    \A p \in Procs :
        LET r == proc[p]
        IN  (r.op \in NormalizingOps \cup {"send_photo_bytes"}
             /\ "reply_markup" \in DOMAIN r.options)
            => \A i \in 1..Len(r.sent) :
                   LET normalized == FixReplyMarkup(r.options["reply_markup"])
                   IN  IF IsMultipart(r.op)
                       THEN r.sent[i].body.fields["reply_markup"] = JsonDumps(normalized)
                       ELSE JsonLoads(r.sent[i].body)["reply_markup"] = normalized

\* C15: a nav token built from a media type, a language code and a media
\* id without a colon and an integer index parses back to the same four
\* fields: handle_callback finds the action nav and the media id, and
\* handle_pagination the media type, the language, the index and the media id.
C15_NavTokenRoundTrip ==
    \A p \in Procs :
        LET r == proc[p]
        IN  r.pc = "parsed"
            => /\ r.hc[1].action = <<"nav">>
               /\ r.hc[1].media_id = r.fields.media_id
               /\ r.pg[1].pg_args = Some(r.fields)

\* C15's case: a token with a negative index of two digits, a language
\* code of several atoms and a media id of two digits has been parsed.
C15_Witness ==
    \E p \in Procs :
        /\ proc[p].pc = "parsed"
        /\ proc[p].fields.current_index = 0 - 12
        /\ proc[p].fields.lang = <<"pt", "-", "BR">>
        /\ proc[p].fields.media_id = <<"4", "2">>
        /\ Len(proc[p].hc[1].parts) = 5

\* C16: no step of a callback delivery changes the cache, and every entry
\* the cache holds after a step either was there unchanged before it or is
\* the whole record a search puts under media:<media_id> in that step: an
\* entry is only ever written whole by a search or dropped by expiry.
C16_SessionRecordImmutable ==
    [][ /\ \A p \in Procs :
               (proc'[p] # proc[p] /\ proc'[p].entry = "handle_callback")
                   => cache' = cache
        /\ \A key \in DOMAIN cache' :
               \/ key \in DOMAIN cache /\ cache'[key] = cache[key]
               \/ \E p \in Procs :
                      /\ proc[p].pc = "hm_put"
                      /\ key = CacheKey(proc[p].data[1].media_id)
                      /\ cache'[key] = [value |-> JsonDumps(proc[p].data[1]),
                                        ttl   |-> SessionTtl] ]_vars

\* C16's case: a nav callback has run to its end, reading the record
\* twice, and the record a search wrote is still in the cache.
C16_Witness ==
    \E p \in Procs :
        LET r == proc[p]
        IN  /\ r.entry = "handle_callback" /\ r.pc = "done"
            /\ Len(KvGets(r)) = 2 /\ KvGets(r)[2].hit
            /\ CacheKey(r.media_id) \in DOMAIN cache
            /\ JsonLoads(cache[CacheKey(r.media_id)].value) = r.result_data[1]

\* The keyboard a delivery is about to render: the one send_main_menu
\* sends, the one handle_callback edits in, the one handle_pagination edits
\* in; no keyboard at any other position.
RenderedKeyboard(r) ==
    CASE r.pc = "hm_send_photo" ->
             MainMenuPhoto(100, r.data[1]).payload.reply_markup.inline_keyboard
      [] r.pc = "hc_edit_caption" -> r.render[1].reply_markup.inline_keyboard
      [] r.pc = "pg_edit_media" -> r.pg_render[1].reply_markup.inline_keyboard
      [] OTHER -> <<>>

\* The navigation tokens of a keyboard, the noop token apart.
TokensOn(kb) ==
    (UNION { { kb[i][j].callback_data : j \in 1..Len(kb[i]) } : i \in 1..Len(kb) })
        \ {NoopToken}

\* The media id a token references: its last field.
TokenMediaId(token) == LET ps == SplitColon(token) IN ps[Len(ps)]

\* The cache operations of a delivery, in program order.
IsKvOp(e) == e.op \in {"kv_get", "kv_put"}

KvOps(r) == SelectSeq(r.trace, IsKvOp)

\* C17 as stated: at the moment a keyboard is rendered, the media id of
\* every navigation token on it has an entry in the Session Cache.
C17_TokensCachedAtRender ==
    \A p \in Procs :
        \A token \in TokensOn(RenderedKeyboard(proc[p])) :
            CacheKey(TokenMediaId(token)) \in DOMAIN cache

\* C17, amended: the media id of every navigation token on a keyboard that
\* is rendered is the one of the handler's last cache operation before the
\* render, which wrote its entry or found it.
C17_TokensFromLastCacheOperation ==
    \A p \in Procs :
        LET r == proc[p]
        IN  \A token \in TokensOn(RenderedKeyboard(r)) :
                /\ KvOps(r) # <<>>
                /\ LET last == KvOps(r)[Len(KvOps(r))]
                   IN  /\ last.key = CacheKey(TokenMediaId(token))
                       /\ last.op = "kv_get" => last.hit

\* C17's case: a language keyboard is about to be rendered and the entry
\* the handler read has expired since.
C17_Witness ==
    \E p \in Procs :
        LET r == proc[p]
        IN  /\ r.pc = "hc_edit_caption" /\ r.action = <<"view">>
            /\ Cardinality(TokensOn(RenderedKeyboard(r))) >= 2
            /\ CacheKey(r.media_id) \notin DOMAIN cache

\* C18: a callback whose token does not match the grammar (wrong field
\* count, non-integer index, missing field, back to another destination
\* than main, unknown action) ends with an alert answer to the callback,
\* and no exception leaves the handler.
C18_MalformedTokenAlerted ==
    \A p \in Procs :
        LET r == proc[p]
        IN  (r.entry = "handle_callback" /\ Ended(r)
             /\ r.cb[1].data \in MalformedTokens)
            => /\ r.fault = None
               /\ \E i \in 1..Len(Answers(r)) :
                      /\ Answers(r)[i].payload.callback_query_id = r.cb[1].id
                      /\ "show_alert" \in DOMAIN Answers(r)[i].payload
                      /\ Answers(r)[i].payload.show_alert

\* C20: a noop callback is answered with answer_callback_query carrying
\* the callback id and nothing else (no text, no alert), and the delivery
\* does nothing besides: no cache operation, no edit, no message.
C20_NoopOnlyAcknowledged ==
    \A p \in Procs :
        LET r == proc[p]
        IN  (r.entry = "handle_callback" /\ r.action = <<"noop">>)
            => /\ r.fault = None
               /\ r.pc \in {"hc_answer", "done"}
               /\ r.pc = "hc_answer" => r.trace = <<>>
               /\ r.pc = "done" =>
                      r.trace = << ApiCall("answerCallbackQuery",
                                           [callback_query_id |-> r.cb[1].id]) >>

\* C20's case: a noop callback has been handled to its end while the cache
\* held a Session Record.
C20_Witness ==
    \E p \in Procs :
        /\ proc[p].entry = "handle_callback" /\ proc[p].action = <<"noop">>
        /\ proc[p].pc = "done"
        /\ DOMAIN cache # {}

\* The search requests, the cache writes and the main menus of a delivery.
IsFetch(e) == e.op = "fetch"

IsKvPut(e) == e.op = "kv_put"

IsSendPhoto(e) == e.op = "api" /\ e.method = "sendPhoto"

\* Whether a search answered with status 200 and a result with a media id.
FoundMedia(outcome) ==
    outcome.kind = "json" /\ outcome.status = 200 /\ "media_id" \in DOMAIN outcome.body

\* Whether the stripped text is a search with a year: not a command, not
\* empty, with a digit.
IsSearchText(text) == ~StartsWithSlash(text) /\ text # <<>> /\ HasDigit(text)

\* What C19 says of one handle_message delivery in a state.
C19_StatePart(r) ==
    LET puts    == SelectSeq(r.trace, IsKvPut)
        fetches == SelectSeq(r.trace, IsFetch)
        photos  == SelectSeq(r.trace, IsSendPhoto)
        wrote   == puts # <<>>
        found   == /\ IsSearchText(r.text)
                   /\ fetches # <<>> /\ FoundMedia(fetches[1].outcome)
    IN  /\ Len(puts) <= 1 /\ Len(fetches) <= 1
        /\ (wrote \/ r.pc = "hm_put") => found
        /\ (found /\ Ended(r)) => wrote
        /\ (IsSearchText(r.text) /\ Ended(r)) => fetches # <<>>
        /\ wrote =>
               LET body == fetches[1].outcome.body
               IN  puts[1] = [op |-> "kv_put", key |-> <<"media", ":">> \o body.media_id,
                              value |-> JsonDumps(body), ttl |-> 3600]
        /\ photos # <<>> => wrote
        /\ r.pc = "hm_send_photo" =>
               cache[puts[1].key] = [value |-> puts[1].value, ttl |-> puts[1].ttl]

\* C19: handle_message writes a Session Record (media:<media_id>, the
\* whole JSON result, TTL 3600) if and only if the text is a search with a
\* digit and the search API answered 200 with a media id; in every other
\* case it leaves the cache as it is and sends no main menu.
C19_RecordWrittenIffSearchSucceeds ==
    /\ [](\A p \in Procs : proc[p].entry = "handle_message" => C19_StatePart(proc[p]))
    /\ [][\A p \in Procs :
              (proc'[p] # proc[p] /\ proc'[p].entry = "handle_message")
                  => IF proc[p].pc = "hm_put"
                     THEN /\ Len(SelectSeq(proc'[p].trace, IsKvPut)) = 1
                          /\ \A key \in DOMAIN cache :
                                 key # CacheKey(proc[p].data[1].media_id)
                                     => key \in DOMAIN cache' /\ cache'[key] = cache[key]
                     ELSE cache' = cache]_vars

\* C19's case: a search with a year found a media id, the record has been
\* written and the main menu sent.
C19_Witness ==
    \E p \in Procs :
        LET r == proc[p]
        IN  /\ r.entry = "handle_message" /\ r.pc = "done"
            /\ SelectSeq(r.trace, IsKvPut) # <<>>
            /\ SelectSeq(r.trace, IsSendPhoto) # <<>>
            /\ "images" \in DOMAIN JsonLoads(cache[CacheKey(<<"7">>)].value)

\* Whether an outbound request sends a new message.
IsSend(e) ==
    e.op = "api" /\ e.method \in {"sendMessage", "sendPhoto", "sendVideo",
                                  "sendDocument", "sendAudio", "sendVoice",
                                  "sendPoll"}

\* C21: a back:main callback with a live session has, when its handling
\* ends, edited the originating message to the main-menu caption and
\* keyboard; and no callback delivery sends a new message.
C21_BackEditsInPlace ==
    \A p \in Procs :
        LET r == proc[p]
        IN  r.entry = "handle_callback"
            => /\ SelectSeq(r.trace, IsSend) = <<>>
               /\ (Ended(r) /\ r.cb[1].data = BackToken(r.media_id)
                   /\ KvGets(r) # <<>> /\ KvGets(r)[1].hit)
                  => \E i \in 1..Len(Edits(r)) :
                         LET e == Edits(r)[i].payload
                         IN  /\ e.chat_id = r.cb[1].message.chat.id
                             /\ e.message_id = r.cb[1].message.message_id
                             /\ e.caption.template = "main_menu"
                             /\ e.reply_markup = MainMenuKeyboard(r.media_id)

\* The positions <<row, column>> of the buttons of a keyboard.
ButtonsAt(kb) ==
    UNION { { <<i, j>> : j \in 1..Len(kb[i]) } : i \in 1..Len(kb) }

\* C22: every image-view keyboard handle_pagination builds (the image
\* sequence is then non-empty) holds exactly one button carrying noop,
\* labelled "<effective index + 1>/<total>", and exactly one button carrying
\* a view token, which is view:<type>:<media_id> for the type and media id
\* of the nav token being resolved.
C22_IndicatorAndBackButton ==
    \A p \in Procs :
        proc[p].pg_render # None =>
            LET r     == proc[p]
                x     == r.pg_render[1]
                kb    == x.reply_markup.inline_keyboard
                nav   == ParsedNav(r.cb[1].data)
                noops == { b \in ButtonsAt(kb) :
                               kb[b[1]][b[2]].callback_data = NoopToken }
                views == { b \in ButtonsAt(kb) :
                               SplitColon(kb[b[1]][b[2]].callback_data)[1] = <<"view">> }
            IN  /\ nav # <<>>
                /\ Len(x.image_list) >= 1
                /\ Cardinality(noops) = 1
                /\ \A b \in noops :
                       kb[b[1]][b[2]].text =
                           IntToStr(x.new_index + 1) \o <<"/">>
                               \o IntToStr(Len(x.image_list))
                /\ Cardinality(views) = 1
                /\ \A b \in views :
                       kb[b[1]][b[2]].callback_data = ViewToken(nav[1], nav[4])

\* C22's case: an image-view keyboard built for a backdrops token.
C22_Witness ==
    \E p \in Procs :
        /\ proc[p].pg_render # None
        /\ ParsedNav(proc[p].cb[1].data)[1] = <<"backdrops">>
        /\ Len(proc[p].pg_render[1].reply_markup.inline_keyboard) = 2

\* C24: no callback delivery calls answer_callback_query more than once,
\* on any path of handle_callback and handle_pagination: session expired at
\* the first or the second cache read, empty image list, exception caught
\* in handle_pagination, or any other.
C24_AnsweredAtMostOnce ==
    \A p \in Procs :
        LET r == proc[p]
        IN  r.entry = "handle_callback"
            => /\ Len(Answers(r)) <= 1
               /\ \A i \in 1..Len(Answers(r)) :
                      Answers(r)[i].payload.callback_query_id = r.cb[1].id

\* C24's case: a delivery ended through the except clause of
\* handle_pagination, after both cache reads hit, with its one answer.
C24_Witness ==
    \E p \in Procs :
        LET r == proc[p]
        IN  /\ r.entry = "handle_callback" /\ r.pc = "done"
            /\ r.err # None
            /\ Len(KvGets(r)) = 2 /\ KvGets(r)[2].hit
            /\ Len(Answers(r)) = 1

\* C26: a nav callback whose two cache reads hit and whose media type or
\* language has no images in the record (key missing, or empty sequence) is
\* answered with the no-images notice and nothing else: no edit, no image
\* index computed, no exception.
C26_NoImagesNotice ==
    \A p \in Procs :
        LET r == proc[p]
        IN  (/\ r.entry = "handle_callback"
             /\ r.pg_args # None
             /\ Len(KvGets(r)) = 2 /\ KvGets(r)[2].hit
             /\ ImagesOf(r.result_data[1], r.pg_args[1].media_type,
                         r.pg_args[1].lang) = <<>>)
            => /\ r.pc \in {"pg_answer_noimages", "done"}
               /\ r.pg_render = None
               /\ r.err = None /\ r.fault = None
               /\ Edits(r) = <<>>
               /\ Ended(r) =>
                      ApiCalls(r) =
                          << ApiCall("answerCallbackQuery",
                                     [callback_query_id |-> r.cb[1].id,
                                      text |-> NoImagesText]) >>

\* C26's two cases, each handled to its end: a language that the record
\* does not hold, and a language whose sequence is empty.
C26_WitnessMissingKey ==
    \E p \in Procs :
        LET r == proc[p]
        IN  /\ r.entry = "handle_callback" /\ r.pc = "done"
            /\ r.pg_args # None
            /\ Len(KvGets(r)) = 2 /\ KvGets(r)[2].hit
            /\ r.pg_args[1].lang[1] \notin
                   DOMAIN GetS(Get(r.result_data[1], "images", EmptyDict),
                               r.pg_args[1].media_type, EmptyDict)

C26_Witness ==
    \E p \in Procs :
        LET r == proc[p]
        IN  /\ r.entry = "handle_callback" /\ r.pc = "done"
            /\ r.pg_args # None
            /\ Len(KvGets(r)) = 2 /\ KvGets(r)[2].hit
            /\ LET byLang == GetS(Get(r.result_data[1], "images", EmptyDict),
                                  r.pg_args[1].media_type, EmptyDict)
               IN  /\ r.pg_args[1].lang[1] \in DOMAIN byLang
                   /\ byLang[r.pg_args[1].lang[1]] = <<>>

\* The nav tokens on the keyboard a delivery is about to render.
NavTokensOn(r) ==
    { token \in TokensOn(RenderedKeyboard(r)) : ParsedNav(token) # <<>> }

\* The image sequence a nav token on a rendered keyboard was derived from:
\* the list handle_pagination selected, or the list the language keyboard
\* counted.
DerivedFrom(r, token) ==
    IF r.pc = "pg_edit_media" THEN r.pg_render[1].image_list
    ELSE ImagesOf(r.result_data[1], ParsedNav(token)[1], ParsedNav(token)[2])

\* C25 as stated: every nav token on a keyboard that is rendered carries an
\* index within 0..N-1 for the sequence of N URLs it was derived from.
C25_NavTokensInRange ==
    \A p \in Procs :
        \A token \in NavTokensOn(proc[p]) :
            LET N == Len(DerivedFrom(proc[p], token))
            IN  0 <= ParsedNav(token)[3] /\ ParsedNav(token)[3] <= N - 1

\* C25, amended: every nav token on a keyboard that is rendered carries an
\* index within 0..N-1 when the sequence it was derived from has N >= 1
\* URLs, so that resolving it needs no clamping; the token the language
\* list places for a language with an empty sequence carries index 0.
C25_NavTokensInRangeIfImages ==
    \A p \in Procs :
        \A token \in NavTokensOn(proc[p]) :
            LET N     == Len(DerivedFrom(proc[p], token))
                index == ParsedNav(token)[3]
            IN  /\ N >= 1 => /\ 0 <= index /\ index <= N - 1
                             /\ ClampIndex(index, N) = index
                /\ N = 0 => /\ index = 0
                            /\ proc[p].pc = "hc_edit_caption"

\* C25's case: a language keyboard is about to be rendered that lists a
\* language with an empty sequence.
C25_Witness ==
    \E p \in Procs :
        /\ proc[p].pc = "hc_edit_caption"
        /\ \E token \in NavTokensOn(proc[p]) :
               DerivedFrom(proc[p], token) = <<>>

\* An image view in the middle of its sequence is about to be rendered,
\* with a Prev and a Next token.
C25_WitnessPrevNext ==
    \E p \in Procs :
        /\ proc[p].pc = "pg_edit_media"
        /\ Cardinality(NavTokensOn(proc[p])) = 2

\* C27: for every keyboard a normalizing operation is given, buttons with
\* both alias fields or with an empty alias included, no button of the
\* normalized keyboard holds callbackData or callback, a button given with
\* an alias holds the alias's value under callback_data, and the keyboard
\* the caller passed is still the one it passed.
C27_AliasesRewritten ==
    \A p \in Procs :
        LET r == proc[p]
        IN  (/\ r.op \in NormalizingOps
             /\ "reply_markup" \in DOMAIN r.options
             /\ "inline_keyboard" \in DOMAIN r.options["reply_markup"])
            => LET given == r.options["reply_markup"]["inline_keyboard"]
                   fixed == r.payload[1]["reply_markup"]["inline_keyboard"]
               IN  /\ r.options["reply_markup"] \in ClientMarkups
                   /\ Len(fixed) = Len(given)
                   /\ \A i \in 1..Len(given) :
                          /\ Len(fixed[i]) = Len(given[i])
                          /\ \A j \in 1..Len(given[i]) :
                                 LET btn == given[i][j]
                                     out == fixed[i][j]
                                 IN  /\ (DOMAIN out) \cap {"callbackData", "callback"} = {}
                                     /\ "callbackData" \in DOMAIN btn
                                            => /\ "callback_data" \in DOMAIN out
                                               /\ out["callback_data"] = btn["callbackData"]
                                     /\ ("callback" \in DOMAIN btn
                                         /\ "callbackData" \notin DOMAIN btn)
                                            => /\ "callback_data" \in DOMAIN out
                                               /\ out["callback_data"] = btn["callback"]

\* Whether s is an initial part of t.
IsPrefix(s, t) == Len(s) <= Len(t) /\ SubSeq(t, 1, Len(s)) = s

\* What C23 says of every state: each of the two interleaved deliveries is
\* on the path it takes when it runs alone against the same cache, and ends
\* with the requests, the renders and the outcome it has alone.
C23_StatePart ==
    \A p \in Procs :
        LET r == proc[p]
        IN  r.entry = "handle_callback"
            => LET solo == RunAlone(r.cb[1], cache)
               IN  /\ IsPrefix(r.trace, solo.trace)
                   /\ Ended(r) => /\ r.pc = solo.pc
                                  /\ r.trace = solo.trace
                                  /\ r.fault = solo.fault
                                  /\ r.err = solo.err
                                  /\ r.render = solo.render
                                  /\ r.pg_render = solo.pg_render

=============================================================================
